---- MODULE Spec2Model ----
(***************************************************************************)
(* Verification model of ElStevenn/tradingbot_v1.                          *)
(*                                                                         *)
(* Time is an instant counted in whole minutes from New York local         *)
(* midnight of day 0; a calendar day is MinutesPerDay minutes and no DST   *)
(* switch falls inside a run, so converting an instant between zones does  *)
(* not change it.  Prices and volumes are integers.  A price the code      *)
(* derives by a percentage (the stop) is kept exactly, as a numerator over *)
(* PriceScale.  An optional value (Python's Optional[T]) is a sequence of   *)
(* length 0 (None) or 1.                                                   *)
(***************************************************************************)
EXTENDS Integers, Sequences, FiniteSets, TLC

VARIABLES
    feed,              \* DataFeed.candles
    start_date,        \* run_on_historical_data argument
    end_date,          \* run_on_historical_data argument
    current_date,      \* run_on_historical_data local
    pc,                \* position of the scheduler in its code
    idx,               \* index of the loop's candle in evaluation_candles
    trades_today,      \* TradingScheduler.trades_today
    current_position,  \* ExecutionSimulator.current_position
    current_range,     \* SignalEngine.current_range
    log,               \* events written by BotLogger, oldest first
    now,               \* live bot: the wall clock, in minutes
    live_pc,           \* live bot: position of run() in its polling loop
    session_started,   \* LiveTradingBot.session_started
    live_position,     \* LiveTradingBot.current_position
    monitoring_jobs,   \* jobs registered by start_position_monitoring
    jobs_left,         \* check_and_close_positions jobs still due this minute
    live_events,       \* events the last job wrote through logger_live.Logger
    live_calls,        \* exchange calls the last job made, with their results
    session_candles,   \* analyze_session argument
    session_decision,  \* analyze_session return value
    test_candles,      \* test_signal_engine.py: the candles of the fixture
    test_aware,        \* whether the fixture's datetimes carry a time zone
    test_range,        \* SignalEngine.current_range of the test's engine
    test_signal,       \* the value validate_long_signal returned
    test_pc,           \* position of the test in its code
    feed_candles,      \* DataFeed.candles of a feed used on its own
    feed_result,       \* the last call on that feed and the value it returned
    sim_call,          \* simulate_session_end_price: the arguments of the call
    candles_after_entry, \* its list candles_after_entry
    sim_pc,            \* position of the call in its code
    sim_idx,           \* index in candles_after_entry of the loop's candle
    current_stop_price, \* its local current_stop_price
    tp_activated,      \* its local tp_activated
    sim_result,        \* the tuple it returned
    candles_by_day,    \* analyze_week: the day's candles of each date, in date order
    week_idx,          \* index of the date the loop is at
    current_capital,   \* its local current_capital, in cents
    trades,            \* its list trades
    dl_range,          \* download_binance_candles: start_dt and end_dt
    klines_until,      \* the exchange holds a 1-minute candle for every minute before this one
    dl_current,        \* its local current_date
    dl_request,        \* params of the last request
    dl_response,       \* what the last request gave
    all_candles,       \* its list all_candles, as runs of consecutive minutes
    dl_pc              \* position: loop, done

schedVars == <<feed, start_date, end_date, current_date, pc, idx, trades_today,
               current_position, current_range, log>>

liveVars == <<now, live_pc, session_started, live_position, monitoring_jobs,
              jobs_left, live_events, live_calls>>

stratVars == <<session_candles, session_decision>>

engineVars == <<test_candles, test_aware, test_range, test_signal, test_pc>>

feedVars == <<feed_candles, feed_result>>

simVars == <<sim_call, candles_after_entry, sim_pc, sim_idx, current_stop_price,
             tp_activated, sim_result>>

weekVars == <<candles_by_day, week_idx, current_capital, trades>>

downloadVars == <<dl_range, klines_until, dl_current, dl_request, dl_response,
                  all_candles, dl_pc>>

serviceVars == <<engineVars, feedVars, simVars, weekVars, downloadVars>>

vars == <<schedVars, liveVars, stratVars, serviceVars>>

-----------------------------------------------------------------------------
(* Bounds of the model *)

FreeLen == 3      \* evaluation candles of a feed drawn freely from Shapes
TailLen == 6      \* candles that follow a complete signal in a trade feed
MaxDay == 2       \* dates of a run are days 0..MaxDay
StratTail == 3    \* candles of a session after its observation window
LiveDays == 2     \* days the live bot's clock runs through

-----------------------------------------------------------------------------
(* Configuration: TradingConfig defaults *)

pre_open_window_min == 30
wait_after_open_min == 5
volume_lookback == 20
max_trades_per_session == 3
entry_notional_eur == 10
leverage == 50

\* retest_tolerance_pct = 0.1 and stop_buffer_pct = 0.05, in percent, as
\* fractions num/den
retest_tolerance_pct == [num |-> 1, den |-> 10]
stop_buffer_pct == [num |-> 5, den |-> 100]

MinutesPerDay == 1440

\* stop prices are numerators over PriceScale
PriceScale == stop_buffer_pct.den * 100

-----------------------------------------------------------------------------
(* Helpers *)

None == <<>>
Some(x) == <<x>>
IsSome(o) == Len(o) = 1
Get(o) == o[1]

Abs(x) == IF x < 0 THEN -x ELSE x

SetMin(S) == CHOOSE x \in S : \A y \in S : x <= y
SetMax(S) == CHOOSE x \in S : \A y \in S : x >= y

RECURSIVE SumVolume(_, _, _)
SumVolume(cs, lo, hi) ==
    IF lo > hi THEN 0 ELSE cs[lo].volume + SumVolume(cs, lo + 1, hi)

RECURSIVE MaxHigh(_, _)
MaxHigh(cs, n) ==
    IF n = 1 THEN cs[1].high
    ELSE LET m == MaxHigh(cs, n - 1) IN IF cs[n].high > m THEN cs[n].high ELSE m

RECURSIVE MinLow(_, _)
MinLow(cs, n) ==
    IF n = 1 THEN cs[1].low
    ELSE LET m == MinLow(cs, n - 1) IN IF cs[n].low < m THEN cs[n].low ELSE m

-----------------------------------------------------------------------------
(* data_feed.py *)

Candle(t, o, h, l, c, v) ==
    [timestamp |-> t, open |-> o, high |-> h, low |-> l, close |-> c, volume |-> v]

body_size(c) == Abs(c.close - c.open)
is_bullish(c) == c.close > c.open
is_bearish(c) == c.close < c.open

\* body_ratio() >= 0.6, with body_ratio() = 0.0 for a candle of zero range
BodyRatioAtLeast60(c) ==
    LET total_range == c.high - c.low IN
    IF total_range = 0 THEN FALSE ELSE 10 * body_size(c) >= 6 * total_range

get_candles_in_range(cs, start_time, end_time) ==
    SelectSeq(cs, LAMBDA c : start_time <= c.timestamp /\ c.timestamp < end_time)

get_latest_candle(cs) == IF cs = <<>> THEN None ELSE Some(cs[Len(cs)])

ValidOHLCV(c) ==
    /\ c.low <= c.open /\ c.open <= c.high
    /\ c.low <= c.close /\ c.close <= c.high
    /\ c.volume >= 0

\* mutant: the distance between candles is not tested
validate_feed_IgnoresGaps(cs, max_gap_minutes) ==
    \/ Len(cs) < 2
    \/ \A i \in 2..Len(cs) : ValidOHLCV(cs[i])

\* validate_feed(max_gap_minutes): the is_valid component of the result
validate_feed(cs, max_gap_minutes) ==
    \/ Len(cs) < 2
    \/ \A i \in 2..Len(cs) :
          /\ cs[i].timestamp - cs[i - 1].timestamp <= max_gap_minutes
          /\ ValidOHLCV(cs[i])

-----------------------------------------------------------------------------
(* signal_engine.py *)

build_pre_open_range(cs, ny_open_time) ==
    LET range_end == ny_open_time
        range_start == range_end - pre_open_window_min
        candles == get_candles_in_range(cs, range_start, range_end)
    IN  IF Len(candles) < 3 THEN None
        ELSE Some([high |-> MaxHigh(candles, Len(candles)),
                   low |-> MinLow(candles, Len(candles)),
                   candle_count |-> Len(candles)])

\* calculate_relative_volume as a fraction num/den (1/1 when there is not
\* enough history or the average is zero)
calculate_relative_volume(candle, cs) ==
    LET hits == {i \in 1..Len(cs) : cs[i].timestamp = candle.timestamp} IN
    IF hits = {} \/ SetMin(hits) - 1 < volume_lookback
    THEN [num |-> 1, den |-> 1]
    ELSE LET i == SetMin(hits)
             total == SumVolume(cs, i - volume_lookback, i - 1)
         IN  IF total = 0 THEN [num |-> 1, den |-> 1]
             ELSE [num |-> candle.volume * volume_lookback, den |-> total]

\* rel_volume >= 1.2
RelVolumeAtLeast120(candle, cs) ==
    LET r == calculate_relative_volume(candle, cs) IN 10 * r.num >= 12 * r.den

\* range_edge - tolerance <= x <= range_edge + tolerance, with
\* tolerance = range_edge * (tolerance_pct / 100)
WithinTolerance(x, range_edge) ==
    LET d == retest_tolerance_pct.den * 100
        n == retest_tolerance_pct.num
    IN  /\ range_edge * (d - n) <= x * d
        /\ x * d <= range_edge * (d + n)

\* x >= range_edge - tolerance
AtLeastEdgeMinusTolerance(x, range_edge) ==
    LET d == retest_tolerance_pct.den * 100
        n == retest_tolerance_pct.num
    IN  x * d >= range_edge * (d - n)

\* x <= range_edge + tolerance
AtMostEdgePlusTolerance(x, range_edge) ==
    LET d == retest_tolerance_pct.den * 100
        n == retest_tolerance_pct.num
    IN  x * d <= range_edge * (d + n)

\* candles.index(candle): the first position holding an equal candle
IndexOf(candles, candle) ==
    SetMin({j \in 1..Len(candles) : candles[j] = candle})

RetestAt(direction, candles, range_edge, i) ==
    LET candle == candles[i]
        candle_idx == IndexOf(candles, candle)
    IN  IF direction = "long"
        THEN /\ WithinTolerance(candle.low, range_edge)
             /\ \/ is_bullish(candle) /\ candle.close > range_edge
                \/ /\ candle_idx + 1 <= Len(candles)
                   /\ AtLeastEdgeMinusTolerance(candles[candle_idx + 1].low, range_edge)
                   /\ candles[candle_idx + 1].close > range_edge
        ELSE /\ WithinTolerance(candle.high, range_edge)
             /\ \/ is_bearish(candle) /\ candle.close < range_edge
                \/ /\ candle_idx + 1 <= Len(candles)
                   /\ AtMostEdgePlusTolerance(candles[candle_idx + 1].high, range_edge)
                   /\ candles[candle_idx + 1].close < range_edge

\* check_retest: the retest candle, None when the result is (False, None)
check_retest(direction, candles, range_edge) ==
    LET ok == {i \in 1..Len(candles) : RetestAt(direction, candles, range_edge, i)}
    IN  IF ok = {} THEN None ELSE Some(candles[SetMin(ok)])

\* mutant: the candle itself is kept
candles_after_Inclusive(candles, candle) ==
    SelectSeq(candles, LAMBDA c : c.timestamp >= candle.timestamp)

\* [c for c in candles if c.timestamp > candle.timestamp]
candles_after(candles, candle) ==
    SelectSeq(candles, LAMBDA c : c.timestamp > candle.timestamp)

Breaks(direction, candle, range) ==
    IF direction = "long" THEN candle.close > range.high ELSE candle.close < range.low

Confirms(direction, candle, range, cs) ==
    /\ IF direction = "long"
       THEN is_bullish(candle) /\ candle.close > range.high
       ELSE is_bearish(candle) /\ candle.close < range.low
    /\ RelVolumeAtLeast120(candle, cs)
    /\ BodyRatioAtLeast60(candle)

\* validate_long_signal (direction = "long") and validate_short_signal
\* (direction = "short"): the two bodies differ only in the comparisons that
\* Breaks, RetestAt and Confirms select by direction.
validate_signal(direction, cs, range_opt, ny_open_time, wait_until, end_time) ==
    IF range_opt = None \/ wait_until < ny_open_time THEN None
    ELSE
    LET range == Get(range_opt)
        candles == get_candles_in_range(cs, wait_until, end_time)
        range_edge == IF direction = "long" THEN range.high ELSE range.low
        brk == {i \in 1..Len(candles) : Breaks(direction, candles[i], range)}
    IN  IF Len(candles) < 2 \/ brk = {} THEN None
        ELSE
        LET breakout_candle == candles[SetMin(brk)]
            candles_after_breakout == candles_after(candles, breakout_candle)
            retest == check_retest(direction, candles_after_breakout, range_edge)
        IN  IF retest = None THEN None
            ELSE
            LET retest_candle == Get(retest)
                candles_after_retest == candles_after(candles_after_breakout, retest_candle)
                conf == {i \in 1..Len(candles_after_retest) :
                            Confirms(direction, candles_after_retest[i], range, cs)}
            IN  IF conf = {} THEN None
                ELSE
                LET confirmation_candle == candles_after_retest[SetMin(conf)] IN
                Some([direction |-> direction,
                      confirmation_price |-> confirmation_candle.close,
                      confirmation_time |-> confirmation_candle.timestamp,
                      range_high |-> range.high,
                      range_low |-> range.low,
                      breakout_candle |-> breakout_candle,
                      retest_candle |-> retest_candle])

validate_long_signal(cs, range_opt, ny_open_time, wait_until, end_time) ==
    validate_signal("long", cs, range_opt, ny_open_time, wait_until, end_time)

validate_short_signal(cs, range_opt, ny_open_time, wait_until, end_time) ==
    validate_signal("short", cs, range_opt, ny_open_time, wait_until, end_time)

-----------------------------------------------------------------------------
(* execution_simulator.py *)

\* calculate_position_size divides the notional by the entry price
PositionSizeRaises(entry_price) == entry_price = 0

\* mutant: the buffer is applied on the wrong side of the range edge
calculate_stop_price_Swapped(direction, range_edge) ==
    LET buffer == range_edge * stop_buffer_pct.num IN
    IF direction = "long"
    THEN range_edge * PriceScale + buffer
    ELSE range_edge * PriceScale - buffer

\* calculate_stop_price, as a numerator over PriceScale
calculate_stop_price(direction, range_edge) ==
    LET buffer == range_edge * stop_buffer_pct.num IN
    IF direction = "long"
    THEN range_edge * PriceScale - buffer
    ELSE range_edge * PriceScale + buffer

\* open_virtual_position: the VirtualPosition it stores and returns
open_virtual_position(signal) ==
    LET entry_price == signal.confirmation_price
        range_edge == IF signal.direction = "long"
                      THEN signal.range_high ELSE signal.range_low
    IN  [direction |-> signal.direction,
         entry_price |-> entry_price,
         entry_time |-> signal.confirmation_time,
         quantity_base |-> [num |-> entry_notional_eur * leverage, den |-> entry_price],
         notional |-> entry_notional_eur * leverage,
         stop_price |-> calculate_stop_price(signal.direction, range_edge),
         is_open |-> TRUE]

\* mutant: the simulator never reports its position as open
has_open_position_Never(pos) == FALSE

has_open_position(pos) == pos # None /\ Get(pos).is_open

check_stop_loss(pos, current_price) ==
    IF pos = None \/ ~Get(pos).is_open THEN FALSE
    ELSE IF Get(pos).direction = "long"
         THEN current_price * PriceScale <= Get(pos).stop_price
         ELSE current_price * PriceScale >= Get(pos).stop_price

\* mutant: the call leaves the position open
close_virtual_position_Keeps(pos) == pos

\* close_virtual_position: the position object after the call (the object
\* it returns is that same object)
close_virtual_position(pos) ==
    IF pos = None \/ ~Get(pos).is_open THEN pos
    ELSE Some([Get(pos) EXCEPT !.is_open = FALSE])

-----------------------------------------------------------------------------
(* logger.py: the events, by their event_type and the data the claims read *)

EvSessionStart(ny_open_time) ==
    [type |-> "session_start", ny_open_time |-> ny_open_time]

EvRangeBuilt(range) ==
    [type |-> "range_built", range_high |-> range.high, range_low |-> range.low,
     candle_count |-> range.candle_count]

EvCancelSetup(reason) == [type |-> "cancel_setup", reason |-> reason]

EvSignalDetected(signal) ==
    [type |-> "signal_detected", direction |-> signal.direction,
     confirmation_time |-> signal.confirmation_time]

EvOpenVirtualPosition(position) ==
    [type |-> "open_virtual_position", direction |-> position.direction,
     entry_price |-> position.entry_price, entry_time |-> position.entry_time,
     stop_price |-> position.stop_price]

EvVirtualMark(current_price, position) ==
    [type |-> "virtual_mark", current_price |-> current_price,
     entry_price |-> position.entry_price]

\* log_stop_out is called with exit_price = position.stop_price
EvStopOut(position, exit_price) ==
    [type |-> "stop_out", exit_price |-> exit_price,
     direction |-> position.direction, entry_price |-> position.entry_price]

\* _calculate_pnl, times PriceScale-free: pnl_base * notional / entry_price
calculate_pnl(position, exit_price) ==
    LET pnl_base == IF position.direction = "long"
                    THEN exit_price - position.entry_price
                    ELSE position.entry_price - exit_price
    IN  [num |-> pnl_base * position.quantity_base.num,
         den |-> position.quantity_base.den]

\* log_session_close: the PnL fields are added only for a position that is
\* present and whose is_open flag is set
EvSessionClose(pos, exit_price) ==
    IF pos # None /\ Get(pos).is_open
    THEN [type |-> "session_close", exit_price |-> exit_price,
          entry_price |-> Get(pos).entry_price,
          direction |-> Get(pos).direction,
          pnl_virtual |-> calculate_pnl(Get(pos), exit_price)]
    ELSE [type |-> "session_close", exit_price |-> exit_price]

EvError(date) == [type |-> "error", date |-> date]

-----------------------------------------------------------------------------
(* scheduler.py: session times *)

\* calculate_ny_open_time: 09:30 of the date
calculate_ny_open_time(date) == date * MinutesPerDay + (9 * 60 + 30)

\* calculate_session_end_time: 16:00 of the day of ny_open_time
calculate_session_end_time(ny_open_time) ==
    (ny_open_time \div MinutesPerDay) * MinutesPerDay + 16 * 60

NyOpen == calculate_ny_open_time(current_date)
WaitUntil == NyOpen + wait_after_open_min
SessionEnd == calculate_session_end_time(NyOpen)
SessionCandles == get_candles_in_range(feed, NyOpen, SessionEnd)
EvaluationCandles == SelectSeq(SessionCandles, LAMBDA c : c.timestamp >= WaitUntil)

\* mutant: the count of session candles is not tested
SetupCancelReason_NoSessionCount ==
    IF ~validate_feed(feed, 5) THEN "feed_unstable"
    ELSE IF build_pre_open_range(feed, NyOpen) = None THEN "insufficient_data"
    ELSE IF EvaluationCandles = <<>> THEN "no_evaluation_window"
    ELSE ""

\* run_session's aborts in the order the code tests them: "" when the setup
\* reaches the evaluation loop
SetupCancelReason ==
    IF ~validate_feed(feed, 5) THEN "feed_unstable"
    ELSE IF build_pre_open_range(feed, NyOpen) = None THEN "insufficient_data"
    ELSE IF Len(SessionCandles) < 5 THEN "insufficient_data"
    ELSE IF EvaluationCandles = <<>> THEN "no_evaluation_window"
    ELSE ""

\* mutant: the loop stops one trade late
MaxTradesReached_Late == trades_today > max_trades_per_session

\* the loop's first test: max trades reached
MaxTradesReached == trades_today >= max_trades_per_session

-----------------------------------------------------------------------------
(* Inputs: the feeds a run is given.  The feed holds one trading day, day 1: *)
(* volume_lookback one-minute candles before the open that span the range   *)
(* 99000..100000, the five candles of the wait period, and the evaluation   *)
(* candles, each one of Shapes.                                             *)

Shape(name, t) ==
    CASE name = "inside"   -> Candle(t, 99500, 99600, 99400, 99500, 10)
      [] name = "lretest"  -> Candle(t, 100300, 100400, 100050, 100200, 10)
      [] name = "lconfirm" -> Candle(t, 100010, 100045, 100010, 100040, 30)
      [] name = "sretest"  -> Candle(t, 98800, 99050, 98700, 98900, 10)
      [] name = "sconfirm" -> Candle(t, 98990, 98990, 98955, 98960, 30)
      [] name = "szero"    -> Candle(t, 98990, 98990, 0, 0, 30)
      [] name = "lwick"    -> Candle(t, 100040, 100050, 99900, 100030, 10)
      [] name = "swick"    -> Candle(t, 98960, 99100, 98950, 98970, 10)

Shapes == {"inside", "lretest", "lconfirm", "sretest", "sconfirm", "szero"}

PreOpenCandle(t) == Candle(t, 99500, 100000, 99000, 99500, 10)

FeedOpen == calculate_ny_open_time(1)

BaseFeed(names) ==
    [i \in 1..volume_lookback |-> PreOpenCandle(FeedOpen - volume_lookback - 1 + i)]
    \o [i \in 1..wait_after_open_min |-> Shape("inside", FeedOpen + i - 1)]
    \o [i \in 1..Len(names) |-> Shape(names[i], FeedOpen + wait_after_open_min + i - 1)]

FreeFeeds == {BaseFeed(names) : names \in [1..FreeLen -> Shapes]}

TradeFeeds ==
    {BaseFeed(<<"lconfirm", "lretest", "lconfirm">> \o tail) :
        tail \in [1..TailLen -> {"inside", "lconfirm"}]}
    \cup
    {BaseFeed(<<"sconfirm", "sretest", "sconfirm">> \o tail) :
        tail \in [1..TailLen -> {"inside", "sconfirm"}]}

\* a trade followed by a candle whose wick reaches the stop and whose close
\* does not
WickFeeds ==
    {BaseFeed(<<"lconfirm", "lretest", "lconfirm", "lwick", "inside">>),
     BaseFeed(<<"sconfirm", "sretest", "sconfirm", "swick", "inside">>)}

LongFeed == BaseFeed(<<"lconfirm", "lretest", "lconfirm", "lconfirm">>)

\* feeds that are too short, hold a gap or hold a malformed candle
DefectFeeds ==
    {SubSeq(LongFeed, i, j) : i \in {1, volume_lookback - 1},
                              j \in {0, 1} \cup (volume_lookback + 2)..(volume_lookback + 6)}
    \cup {SelectSeq(LongFeed, LAMBDA c : c.timestamp < FeedOpen - 10
                                         \/ c.timestamp > FeedOpen - 5),
          SelectSeq(LongFeed, LAMBDA c : c.timestamp < FeedOpen + 1
                                         \/ c.timestamp > FeedOpen + 5),
          SelectSeq(LongFeed, LAMBDA c : /\ c.timestamp < FeedOpen + 1
                                            \/ c.timestamp > FeedOpen + 3
                                         /\ c.timestamp < FeedOpen + 7),
          [LongFeed EXCEPT ![1].low = 99600],
          [LongFeed EXCEPT ![volume_lookback].low = 99600]}

\* a feed of two trading days, days 1 and 2, joined by one candle every five
\* minutes
DayPart(open, names) ==
    [i \in 1..volume_lookback |-> PreOpenCandle(open - volume_lookback - 1 + i)]
    \o [i \in 1..wait_after_open_min |-> Shape("inside", open + i - 1)]
    \o [i \in 1..Len(names) |-> Shape(names[i], open + wait_after_open_min + i - 1)]

TwoDayFeed(names1, names2) ==
    LET first == DayPart(FeedOpen, names1)
        last1 == first[Len(first)].timestamp
        start2 == FeedOpen + MinutesPerDay - volume_lookback
        n == (start2 - last1 - 1) \div 5
    IN  first \o [k \in 1..n |-> Shape("inside", last1 + 5 * k)]
              \o DayPart(FeedOpen + MinutesPerDay, names2)

TwoDayFeeds ==
    {TwoDayFeed(names1, names2) :
        names1 \in {<<"sconfirm", "sretest", "szero">>,
                    <<"lconfirm", "lretest", "lconfirm", "lconfirm">>},
        names2 \in {<<>>, <<"lconfirm", "lretest", "lconfirm", "lconfirm">>}}

\* two trading days with nothing between them: an overnight gap
OvernightGapFeeds ==
    {DayPart(FeedOpen, names1) \o DayPart(FeedOpen + MinutesPerDay, names2) :
        names1 \in {<<"lconfirm", "lretest", "lconfirm">>},
        names2 \in {<<>>, <<"sconfirm", "sretest", "sconfirm">>}}

Feeds ==
    FreeFeeds \cup TradeFeeds \cup WickFeeds \cup DefectFeeds \cup TwoDayFeeds
              \cup OvernightGapFeeds

-----------------------------------------------------------------------------
(* scheduler.py: run_on_historical_data and run_session *)

\* the live bot is not constructed
LiveAbsent ==
    /\ now = 0
    /\ live_pc = "absent"
    /\ session_started = FALSE
    /\ live_position = None
    /\ monitoring_jobs = 0
    /\ jobs_left = 0
    /\ live_events = <<>>
    /\ live_calls = <<>>

\* analyze_session is not called
StrategyAbsent ==
    /\ session_candles = <<>>
    /\ session_decision = None

\* no test of the signal engine runs
EngineAbsent ==
    /\ test_candles = <<>>
    /\ test_aware = FALSE
    /\ test_range = None
    /\ test_signal = None
    /\ test_pc = "absent"

\* no feed is used on its own
FeedAbsent ==
    /\ feed_candles = <<>>
    /\ feed_result = None

\* simulate_session_end_price is not called
SimAbsent ==
    /\ sim_call = None
    /\ candles_after_entry = <<>>
    /\ sim_pc = "absent"
    /\ sim_idx = 0
    /\ current_stop_price = 0
    /\ tp_activated = FALSE
    /\ sim_result = None

\* analyze_week is not running
WeekAbsent ==
    /\ candles_by_day = <<>>
    /\ week_idx = 0
    /\ current_capital = 0
    /\ trades = <<>>

\* download_binance_candles is not running
DownloadAbsent ==
    /\ dl_range = <<>>
    /\ klines_until = 0
    /\ dl_current = 0
    /\ dl_request = <<>>
    /\ dl_response = ""
    /\ all_candles = <<>>
    /\ dl_pc = ""

ServiceAbsent ==
    /\ EngineAbsent
    /\ FeedAbsent
    /\ SimAbsent
    /\ WeekAbsent
    /\ DownloadAbsent

SchedulerOnly == UNCHANGED <<liveVars, stratVars, serviceVars>>

Init ==
    /\ LiveAbsent
    /\ StrategyAbsent
    /\ ServiceAbsent
    /\ feed \in Feeds
    /\ start_date \in 0..MaxDay
    /\ end_date \in {d \in 0..MaxDay : d >= start_date - 1}
    /\ current_date = start_date
    /\ pc = "days"
    /\ idx = 0
    /\ trades_today = 0
    /\ current_position = None
    /\ current_range = None
    /\ log = <<>>

\* the day's pass through the while loop ends: lines 115-116
NextDay ==
    /\ current_date' = current_date + 1
    /\ trades_today' = 0
    /\ pc' = "days"
    /\ idx' = 0

\* mutant: the exception leaves run_on_historical_data
OnDayException_Propagates ==
    /\ pc' = "raised"
    /\ UNCHANGED <<current_date, trades_today, idx, log>>

\* the except clause of run_on_historical_data, followed by lines 115-116
OnDayException ==
    /\ log' = Append(log, EvError(current_date))
    /\ NextDay

DayPending == pc = "days" /\ current_date <= end_date

\* mutant: a day is skipped only when the feed ends before its midnight
SkipsDay_BeforeMidnight ==
    LET latest_candle == get_latest_candle(feed) IN
    latest_candle # None /\ Get(latest_candle).timestamp < current_date * MinutesPerDay

SkipsDay ==
    LET latest_candle == get_latest_candle(feed) IN
    latest_candle # None /\ Get(latest_candle).timestamp < NyOpen

\* the feed's latest candle predates the day's open: continue
SkipDay ==
    /\ DayPending
    /\ SkipsDay
    /\ current_date' = current_date + 1
    /\ UNCHANGED <<feed, start_date, end_date, pc, idx, trades_today,
                   current_position, current_range, log>>
    /\ SchedulerOnly

\* run_session returns from its setup with cancel_setup
CancelSetup ==
    /\ DayPending
    /\ ~SkipsDay
    /\ SetupCancelReason # ""
    /\ LET range == build_pre_open_range(feed, NyOpen)
           built == validate_feed(feed, 5) /\ range # None
       IN  /\ current_range' = IF built THEN range ELSE current_range
           /\ log' = log \o <<EvSessionStart(NyOpen)>>
                         \o (IF built THEN <<EvRangeBuilt(Get(range))>> ELSE <<>>)
                         \o <<EvCancelSetup(SetupCancelReason)>>
    /\ NextDay
    /\ UNCHANGED <<feed, start_date, end_date, current_position>>
    /\ SchedulerOnly

\* run_session reaches its evaluation loop
EnterLoop ==
    /\ DayPending
    /\ ~SkipsDay
    /\ SetupCancelReason = ""
    /\ LET range == build_pre_open_range(feed, NyOpen) IN
       /\ current_range' = range
       /\ log' = log \o <<EvSessionStart(NyOpen), EvRangeBuilt(Get(range))>>
    /\ trades_today' = 0
    /\ pc' = "loop"
    /\ idx' = 1
    /\ UNCHANGED <<feed, start_date, end_date, current_date, current_position>>
    /\ SchedulerOnly

\* the while loop of run_on_historical_data ends
Finish ==
    /\ pc = "days"
    /\ current_date > end_date
    /\ pc' = "done"
    /\ UNCHANGED <<feed, start_date, end_date, current_date, idx, trades_today,
                   current_position, current_range, log>>
    /\ SchedulerOnly

InLoop == pc = "loop" /\ idx <= Len(EvaluationCandles)
LoopCandle == EvaluationCandles[idx]
LoopBreaks == MaxTradesReached \/ LoopCandle.timestamp >= SessionEnd
Processing == InLoop /\ ~LoopBreaks

\* break, or the candles are exhausted
LeaveLoop ==
    /\ pc = "loop"
    /\ IF idx > Len(EvaluationCandles) THEN TRUE ELSE LoopBreaks
    /\ pc' = "close"
    /\ UNCHANGED <<feed, start_date, end_date, current_date, idx, trades_today,
                   current_position, current_range, log>>
    /\ SchedulerOnly

\* mutant: the stop is tested against the close of the candle
StopLossPrice_Close(position, candle) == candle.close

StopLossPrice(position, candle) ==
    IF position.direction = "long" THEN candle.low ELSE candle.high

\* an open position whose stop the candle reaches
LoopStopOut ==
    /\ Processing
    /\ has_open_position(current_position)
    /\ LET position == Get(current_position) IN
       /\ check_stop_loss(current_position, StopLossPrice(position, LoopCandle))
       /\ current_position' = close_virtual_position(current_position)
       /\ log' = log \o <<EvVirtualMark(LoopCandle.close, position),
                          EvStopOut(Get(current_position'), position.stop_price)>>
    /\ trades_today' = trades_today + 1
    /\ idx' = idx + 1
    /\ UNCHANGED <<feed, start_date, end_date, current_date, pc, current_range>>
    /\ SchedulerOnly

\* an open position whose stop the candle does not reach
LoopHold ==
    /\ Processing
    /\ has_open_position(current_position)
    /\ LET position == Get(current_position) IN
       /\ ~check_stop_loss(current_position, StopLossPrice(position, LoopCandle))
       /\ log' = Append(log, EvVirtualMark(LoopCandle.close, position))
    /\ idx' = idx + 1
    /\ UNCHANGED <<feed, start_date, end_date, current_date, pc, trades_today,
                   current_position, current_range>>
    /\ SchedulerOnly

LongSignal == validate_long_signal(feed, current_range, NyOpen, WaitUntil, SessionEnd)
ShortSignal == validate_short_signal(feed, current_range, NyOpen, WaitUntil, SessionEnd)

\* mutant: a signal is acted on only at the candle that confirms it
Due_AtConfirmation(signal) == signal # None /\ Get(signal).confirmation_time = LoopCandle.timestamp

Due(signal) == signal # None /\ Get(signal).confirmation_time <= LoopCandle.timestamp

\* the signal the loop acts on at this candle: long first, then short
DueSignal == IF Due(LongSignal) THEN LongSignal
             ELSE IF Due(ShortSignal) THEN ShortSignal ELSE None

\* no open position and a due signal: open_virtual_position
LoopOpen ==
    /\ Processing
    /\ ~has_open_position(current_position)
    /\ DueSignal # None
    /\ ~PositionSizeRaises(Get(DueSignal).confirmation_price)
    /\ current_position' = Some(open_virtual_position(Get(DueSignal)))
    /\ log' = log \o <<EvSignalDetected(Get(DueSignal)),
                       EvOpenVirtualPosition(Get(current_position'))>>
    /\ idx' = idx + 1
    /\ UNCHANGED <<feed, start_date, end_date, current_date, pc, trades_today,
                   current_range>>
    /\ SchedulerOnly

\* open_virtual_position raises: the exception leaves run_session
LoopOpenRaises ==
    /\ Processing
    /\ ~has_open_position(current_position)
    /\ DueSignal # None
    /\ PositionSizeRaises(Get(DueSignal).confirmation_price)
    /\ OnDayException
    /\ UNCHANGED <<feed, start_date, end_date, current_position, current_range>>
    /\ SchedulerOnly

\* no open position and no due signal
LoopNoSignal ==
    /\ Processing
    /\ ~has_open_position(current_position)
    /\ DueSignal = None
    /\ idx' = idx + 1
    /\ UNCHANGED <<feed, start_date, end_date, current_date, pc, trades_today,
                   current_position, current_range, log>>
    /\ SchedulerOnly

\* lines 234-253, then the return to run_on_historical_data
SessionClose ==
    /\ pc = "close"
    /\ LET latest_candle == SessionCandles[Len(SessionCandles)]
           exit_price == latest_candle.close
           closed == close_virtual_position(current_position)
           first == IF has_open_position(current_position)
                    THEN <<EvSessionClose(closed, exit_price)>> ELSE <<>>
           second == IF ~has_open_position(closed) /\ exit_price # 0
                     THEN <<EvSessionClose(None, exit_price)>> ELSE <<>>
       IN  /\ current_position' = closed
           /\ log' = log \o first \o second
    /\ NextDay
    /\ UNCHANGED <<feed, start_date, end_date, current_range>>
    /\ SchedulerOnly

Next ==
    \/ SkipDay
    \/ CancelSetup
    \/ EnterLoop
    \/ Finish
    \/ LeaveLoop
    \/ LoopStopOut
    \/ LoopHold
    \/ LoopOpen
    \/ LoopOpenRaises
    \/ LoopNoSignal
    \/ SessionClose

Spec == Init /\ [][Next]_vars

-----------------------------------------------------------------------------
(* Time zones.  Instants are minutes counted from a New York midnight; no
   daylight-saving change falls inside a run, so the three zones differ by
   fixed offsets (winter time: New York UTC-5, Madrid UTC+1). *)

NyToUtcMinutes == 300
NyToSpainMinutes == 360

UtcDate(t) == (t + NyToUtcMinutes) \div MinutesPerDay
UtcMinuteOfDay(t) == (t + NyToUtcMinutes) % MinutesPerDay
SpainDate(t) == (t + NyToSpainMinutes) \div MinutesPerDay
SpainHour(t) == ((t + NyToSpainMinutes) % MinutesPerDay) \div 60

-----------------------------------------------------------------------------
(* service/trading_strategy.py: analyze_session.  Percentages are kept as
   exact fractions with a positive denominator; prices are positive. *)

\* ((to - from) / from) * 100
PctChange(from, to) == [num |-> (to - from) * 100, den |-> from]
PctAbs(r) == [num |-> Abs(r.num), den |-> r.den]
\* r < a / b and r > a / b, for b > 0
PctBelow(r, a, b) == r.num * b < a * r.den
PctAbove(r, a, b) == r.num * b > a * r.den

\* list.sort(key = timestamp): stable
InsertByTimestamp(sorted, c) ==
    LET k == Cardinality({i \in 1..Len(sorted) : sorted[i].timestamp <= c.timestamp})
    IN  SubSeq(sorted, 1, k) \o <<c>> \o SubSeq(sorted, k + 1, Len(sorted))

RECURSIVE SortByTimestamp(_)
SortByTimestamp(cs) ==
    IF cs = <<>> THEN <<>>
    ELSE InsertByTimestamp(SortByTimestamp(SubSeq(cs, 1, Len(cs) - 1)), cs[Len(cs)])

\* 09:30 New York on the Spanish calendar date of the first candle
SessionNyOpen(first_candle_time) ==
    SpainDate(first_candle_time) * MinutesPerDay + (9 * 60 + 30)

Between(cs, lo, hi) ==
    SelectSeq(cs, LAMBDA c : lo <= c.timestamp /\ c.timestamp <= hi)

\* the first candle of the window at the least distance from the open
OpenCandle(observation_candles, ny_open) ==
    LET diff(i) == Abs(observation_candles[i].timestamp - ny_open)
        k == CHOOSE i \in 1..Len(observation_candles) :
                 /\ \A j \in 1..Len(observation_candles) : diff(i) <= diff(j)
                 /\ \A j \in 1..(i - 1) : diff(j) > diff(i)
    IN  observation_candles[k]

\* price_after_5min and price_after_10min
PricesAfterOpen(observation_candles, ny_open) ==
    LET after == SelectSeq(observation_candles, LAMBDA c : c.timestamp >= ny_open)
        m(i) == after[i].timestamp - ny_open
        tens == {i \in 1..Len(after) : 9 <= m(i) /\ m(i) <= 11}
        stop == IF tens = {} THEN Len(after) ELSE SetMin(tens)
        fives == {i \in 1..stop : 4 <= m(i) /\ m(i) <= 6}
        last == observation_candles[Len(observation_candles)].close
    IN  IF after = <<>> THEN [five |-> last, ten |-> last]
        ELSE [five |-> IF fives # {} THEN after[SetMin(fives)].close
                       ELSE after[Len(after)].close,
              ten  |-> IF tens # {} THEN after[SetMin(tens)].close
                       ELSE after[Len(after)].close]

\* the change the direction is read from: the 5-minute change, or the
\* 10-minute change when the former is below 0.05 %
PriceChangePct(price_at_open, prices) ==
    LET five == PctChange(price_at_open, prices.five) IN
    IF PctBelow(PctAbs(five), 5, 100)
    THEN PctChange(price_at_open, prices.ten) ELSE five

\* mutant: the thresholds themselves count as a move
DirectionOf_Inclusive(price_change_pct) ==
    IF ~PctAbove(price_change_pct, -8, 100) THEN "down"
    ELSE IF ~PctBelow(price_change_pct, 8, 100) THEN "up"
    ELSE "none"

DirectionOf(price_change_pct) ==
    IF PctBelow(price_change_pct, -8, 100) THEN "down"
    ELSE IF PctAbove(price_change_pct, 8, 100) THEN "up"
    ELSE "none"

DailyTrend(daily_change_pct) ==
    IF PctAbove(daily_change_pct, 5, 10) THEN "bullish"
    ELSE IF PctBelow(daily_change_pct, -5, 10) THEN "bearish"
    ELSE "neutral"

LastN(cs, n) == SubSeq(cs, IF Len(cs) > n THEN Len(cs) - n + 1 ELSE 1, Len(cs))

\* mutant: the support search runs whenever the direction is not "up"
SearchesSupport_UnlessUp(direction) == direction # "up"

\* line 274
SearchesSupport(direction) == direction = "down"

\* line 333
SearchesResistance(direction) == direction = "up"

\* the rebound test of the LONG loop on one candle of the post-observation window
Rebounds(normalized_candles, candle, support_zone) ==
    LET i == IndexOf(normalized_candles, candle) IN
    /\ candle.low * 1000 <= support_zone * 1001
    /\ i + 2 <= Len(normalized_candles)
    /\ normalized_candles[i + 1].close > candle.close
    /\ normalized_candles[i + 2].close > normalized_candles[i + 1].close
    /\ normalized_candles[i + 1].close > support_zone

\* criterion 1 of the SHORT loop
Rejects(normalized_candles, candle, resistance_zone) ==
    LET i == IndexOf(normalized_candles, candle) IN
    /\ candle.high * 10000 >= resistance_zone * 9985
    /\ i + 2 <= Len(normalized_candles)
    /\ normalized_candles[i + 1].close < candle.close
    /\ normalized_candles[i + 2].close < normalized_candles[i + 1].close
    /\ normalized_candles[i + 1].close < resistance_zone

\* criterion 2 of the SHORT loop
RejectsAfterSpike(normalized_candles, candle, resistance_zone) ==
    LET i == IndexOf(normalized_candles, candle) IN
    /\ candle.high * 1000 > resistance_zone * 1002
    /\ candle.close * 1000 <= resistance_zone * 998
    /\ i + 1 <= Len(normalized_candles)
    /\ normalized_candles[i + 1].close < candle.close
    /\ normalized_candles[i + 1].close < resistance_zone

\* the candle that follows the first of the candles post[k], k in hits
EntryCandle(normalized_candles, post, hits) ==
    IF hits = {} THEN None
    ELSE Some(normalized_candles[IndexOf(normalized_candles, post[SetMin(hits)]) + 1])

\* the dictionary analyze_session returns; entry is the entry candle, if any
Decision(session_date, ny_open_time, direction, entry_type, support_zone, resistance_zone, entry, error) ==
    [session_date       |-> session_date,
     ny_open_time       |-> ny_open_time,
     direction_detected |-> direction,
     entry_type         |-> entry_type,
     support_zone       |-> support_zone,
     resistance_zone    |-> resistance_zone,
     entry_price        |-> IF entry = None THEN None ELSE Some(Get(entry).close),
     entry_minute       |-> IF entry = None THEN None
                            ELSE Some(Get(entry).timestamp - Get(ny_open_time)),
     entry_timestamp    |-> IF entry = None THEN None ELSE Some(Get(entry).timestamp),
     error              |-> error]

analyze_session(cs) ==
    IF cs = <<>>
    THEN Decision(None, None, "none", "NO_ENTRY", None, None, None, TRUE)
    ELSE
    LET normalized_candles == SortByTimestamp(cs)
        first_candle_time == normalized_candles[1].timestamp
        session_date == UtcDate(first_candle_time)
        ny_open == SessionNyOpen(first_candle_time)
        narrow == Between(normalized_candles, ny_open - 2, ny_open + 10)
        widened == Len(narrow) < 2
        observation_end == IF widened THEN ny_open + 15 ELSE ny_open + 10
        observation_candles ==
            IF widened THEN Between(normalized_candles, ny_open - 5, ny_open + 15)
            ELSE narrow
    IN
    IF Len(observation_candles) < 2
    THEN Decision(Some(session_date), Some(ny_open), "none", "NO_ENTRY",
                  None, None, None, TRUE)
    ELSE
    LET price_at_open == OpenCandle(observation_candles, ny_open).close
        prices == PricesAfterOpen(observation_candles, ny_open)
        direction == DirectionOf(PriceChangePct(price_at_open, prices))
        pre_open_candles ==
            SelectSeq(normalized_candles,
                      LAMBDA c : ny_open - 120 <= c.timestamp /\ c.timestamp < ny_open)
        daily_change_pct ==
            PctChange(normalized_candles[1].open,
                      normalized_candles[Len(normalized_candles)].close)
        daily_trend == DailyTrend(daily_change_pct)
        recent == LastN(pre_open_candles, 30)
        \* lines 274-331
        long_search ==
            /\ SearchesSupport(direction)
            /\ ~(daily_trend = "bearish" /\ PctBelow(daily_change_pct, -15, 10))
            /\ pre_open_candles # <<>>
        support == SetMin({recent[i].low : i \in 1..Len(recent)})
        long_post ==
            SelectSeq(normalized_candles,
                      LAMBDA c : observation_end < c.timestamp
                                 /\ c.timestamp <= observation_end + 30)
        long_entry ==
            EntryCandle(normalized_candles, long_post,
                        {k \in 1..Len(long_post) :
                            Rebounds(normalized_candles, long_post[k], support)})
        \* lines 333-436
        short_search ==
            /\ ~SearchesSupport(direction)
            /\ SearchesResistance(direction)
            /\ ~(daily_trend = "bullish" /\ PctAbove(daily_change_pct, 15, 10))
            /\ pre_open_candles # <<>>
        resistance == SetMax({recent[i].high : i \in 1..Len(recent)})
        short_post ==
            SelectSeq(normalized_candles,
                      LAMBDA c : observation_end < c.timestamp
                                 /\ c.timestamp <= observation_end + 45)
        short_entry ==
            EntryCandle(normalized_candles, short_post,
                        {k \in 1..Len(short_post) :
                            \/ Rejects(normalized_candles, short_post[k], resistance)
                            \/ RejectsAfterSpike(normalized_candles, short_post[k],
                                                 resistance)})
        discarded == daily_trend = "bullish" /\ PctAbove(daily_change_pct, 10, 10)
    IN
    IF long_search
    THEN Decision(Some(session_date), Some(ny_open), direction,
                  IF long_entry # None THEN "LONG" ELSE "NO_ENTRY",
                  Some(support), None, long_entry, FALSE)
    ELSE IF short_search
    THEN Decision(Some(session_date), Some(ny_open), direction,
                  IF short_entry # None /\ ~discarded THEN "SHORT" ELSE "NO_ENTRY",
                  None, Some(resistance), short_entry, FALSE)
    ELSE Decision(Some(session_date), Some(ny_open), direction, "NO_ENTRY",
                  None, None, None, FALSE)

-----------------------------------------------------------------------------
(* Sessions handed to analyze_session: a pre-open candle, the candle of the
   open, the candles 5 and 10 minutes later, and StratTail one-minute candles
   after the observation window. *)

StratCandle(name, t) ==
    CASE name = "flat"    -> Candle(t, 100000, 100000, 100000, 100000, 10)
      [] name = "down"    -> Candle(t, 100000, 100000, 99900, 99900, 10)
      [] name = "up"      -> Candle(t, 100000, 100100, 100000, 100100, 10)
      [] name = "up8"     -> Candle(t, 100000, 100080, 100000, 100080, 10)
      [] name = "up3"     -> Candle(t, 100000, 100030, 100000, 100030, 10)
      [] name = "down8"   -> Candle(t, 100000, 100000, 99920, 99920, 10)
      [] name = "touch"   -> Candle(t, 99900, 99900, 99850, 99860, 10)
      [] name = "spike"   -> Candle(t, 100000, 100500, 99900, 99950, 10)
      [] name = "pre"     -> Candle(t, 100000, 100200, 99800, 100000, 10)
      [] name = "prelow"  -> Candle(t, 98900, 100200, 98900, 100000, 10)
      [] name = "prevlow" -> Candle(t, 98400, 100200, 98400, 100000, 10)
      [] name = "prehigh" -> Candle(t, 101700, 101700, 99800, 100000, 10)

PreNames == {"pre", "prelow", "prevlow", "prehigh"}
FiveNames == {"flat", "down", "up", "up8", "up3", "down8"}
TenNames == {"flat", "down", "up"}
TailNames == {"flat", "down", "up", "touch", "spike"}

Session(pre, five, ten, tail) ==
    <<StratCandle(pre, FeedOpen - 30), StratCandle("flat", FeedOpen),
      StratCandle(five, FeedOpen + 5), StratCandle(ten, FeedOpen + 10)>>
    \o [k \in 1..StratTail |-> StratCandle(tail[k], FeedOpen + 10 + k)]

FullSessions ==
    {Session(pre, five, ten, tail) :
        pre \in PreNames, five \in FiveNames, ten \in TenNames,
        tail \in [1..StratTail -> TailNames]}

Reverse(s) == [i \in 1..Len(s) |-> s[Len(s) + 1 - i]]

Sessions ==
    FullSessions
    \cup {SubSeq(s, 1, n) : s \in FullSessions, n \in 0..(3 + StratTail)}
    \cup {<<s[1], s[2]>> \o SubSeq(s, 5, Len(s)) : s \in FullSessions}
    \cup {Reverse(Session("pre", five, "flat", [k \in 1..StratTail |-> "flat"])) :
              five \in FiveNames}

\* the scheduler is not constructed
SchedulerAbsent ==
    /\ feed = <<>>
    /\ start_date = 0
    /\ end_date = 0
    /\ current_date = 0
    /\ pc = "absent"
    /\ idx = 0
    /\ trades_today = 0
    /\ current_position = None
    /\ current_range = None
    /\ log = <<>>

StrategyInit ==
    /\ SchedulerAbsent
    /\ ServiceAbsent
    /\ LiveAbsent
    /\ session_candles \in Sessions
    /\ session_decision = None

AnalyzeSession ==
    /\ session_decision = None
    /\ session_decision' = Some(analyze_session(session_candles))
    /\ UNCHANGED <<session_candles, schedVars, liveVars, serviceVars>>

StrategyNext == AnalyzeSession

SpecStrategy == StrategyInit /\ [][StrategyNext]_vars

-----------------------------------------------------------------------------
(* bot/live_trading_bot.py and bot/bitget_client.py.  The exchange is the
   environment: each call of the client gets one of the replies the client
   can produce. *)

live_leverage == 25
initial_capital_pct == [num |-> 35, den |-> 100]
stop_loss_pct == [num |-> 2, den |-> 100]

\* the date 0 is a Thursday
weekday(date) == (date + 3) % 7

should_trade_today(t) == weekday(UtcDate(t)) < 5

\* 09:30 New York on the UTC calendar date of t
check_ny_open_time(t) == UtcDate(t) * MinutesPerDay + (9 * 60 + 30)

\* mutant: the window starts at the open
is_open_time_FromOpen(t) ==
    /\ check_ny_open_time(t) <= t
    /\ t <= check_ny_open_time(t) + 30

is_open_time(t) ==
    /\ check_ny_open_time(t) - 5 <= t
    /\ t <= check_ny_open_time(t) + 30

Call(name, result) == [name |-> name, result |-> result]
LiveEvent(event_type, reason) == [event_type |-> event_type, reason |-> reason]

\* what a handler leaves behind; raises: an exception leaves the handler
Outcome(raises, position, events, calls) ==
    [raises |-> raises, position |-> position, events |-> events, calls |-> calls]

\* a call raises TypeError unless its keywords name parameters of the callee
\* and cover the parameters that have no default
BindingRaises(keywords, parameters, required) ==
    ~(keywords \subseteq parameters) \/ ~(required \subseteq keywords)

\* BitgetClient.open_position(self, symbol, side, size_usdt, stop_loss_price = None, leverage = 25)
open_position_parameters == {"symbol", "side", "size_usdt", "stop_loss_price", "leverage"}
open_position_required == {"symbol", "side", "size_usdt"}
\* mutant: the call names the parameter size_usdt
open_position_keywords_Matching == {"symbol", "side", "size_usdt", "stop_loss_price", "leverage"}

\* the keywords of the call in execute_trading_decision
open_position_keywords == {"symbol", "side", "size", "stop_loss_price", "leverage"}

\* json.dumps raises TypeError on a value that is a datetime
DatetimeFields == {"entry_time"}
JsonDumpsRaises(record) == DOMAIN record \cap DatetimeFields # {}

base_pct(balance) ==
    IF balance > 1000 THEN [num |-> 50, den |-> 100]
    ELSE IF balance > 750 THEN [num |-> 45, den |-> 100]
    ELSE IF balance > 600 THEN [num |-> 40, den |-> 100]
    ELSE initial_capital_pct

position_size(balance) ==
    (balance * base_pct(balance).num * live_leverage) \div base_pct(balance).den

\* the stop as a fraction: entry_price * (1 -/+ stop_loss_pct)
stop_loss_price(entry_type, entry_price) ==
    [num |-> IF entry_type = "LONG"
             THEN entry_price * (stop_loss_pct.den - stop_loss_pct.num)
             ELSE entry_price * (stop_loss_pct.den + stop_loss_pct.num),
     den |-> stop_loss_pct.den]

LivePosition(d, balance, t) ==
    [type        |-> d.entry_type,
     entry_price |-> Get(d.entry_price),
     entry_time  |-> t,
     size        |-> position_size(balance),
     stop_loss   |-> stop_loss_price(d.entry_type, Get(d.entry_price))]

\* replies of the exchange
Raises == [kind |-> "raises", mark_price |-> 0]
NoPositions == [kind |-> "none", mark_price |-> 0]
OpenPositions(mark_price) == [kind |-> "open", mark_price |-> mark_price]
MarkPrices == {97000, 100000, 103000}
PositionsReplies == {Raises, NoPositions} \cup {OpenPositions(m) : m \in MarkPrices}
\* fetch_balance raises, or returns the USDT total
BalanceRaises == [kind |-> "raises", total |-> 0]
Balance(total) == [kind |-> "returns", total |-> total]
BalanceReplies == {BalanceRaises, Balance(0), Balance(500), Balance(700)}
OrderReplies == {"success", "failure"}
\* get_ohlcv_data raises, returns fewer than 100 candles, or at least 100
CandleReplies == {"raises", "few", "enough"}

\* lines 149-229
execute_trading_decision(position, d, t, positions_reply, balance_reply, order_reply) ==
    LET fetched == <<Call("get_open_positions", positions_reply.kind)>>
        balance == <<Call("fetch_balance", balance_reply.kind)>>
    IN
    IF d.entry_type = "NO_ENTRY"
    THEN Outcome(FALSE, position, <<LiveEvent("no_entry", "")>>, <<>>)
    ELSE IF positions_reply.kind = "raises"
    THEN Outcome(TRUE, position, <<>>, fetched)
    ELSE IF positions_reply.kind = "open"
    THEN Outcome(FALSE, position, <<LiveEvent("position_already_open", "")>>, fetched)
    ELSE IF balance_reply.kind = "raises"
    THEN Outcome(FALSE, position,
                 <<LiveEvent("error", "balance"), LiveEvent("error", "balance_zero")>>,
                 fetched \o balance)
    ELSE IF balance_reply.total = 0
    THEN Outcome(FALSE, position, <<LiveEvent("error", "balance_zero")>>,
                 fetched \o balance)
    ELSE IF BindingRaises(open_position_keywords, open_position_parameters,
                          open_position_required)
    THEN Outcome(TRUE, position, <<>>,
                 fetched \o balance \o <<Call("open_position", "TypeError")>>)
    ELSE IF order_reply = "success"
    THEN Outcome(FALSE, Some(LivePosition(d, balance_reply.total, t)),
                 <<LiveEvent("position_opened", "")>>,
                 fetched \o balance \o <<Call("open_position", "success")>>)
    ELSE Outcome(FALSE, position, <<LiveEvent("error", "open_position")>>,
                 fetched \o balance \o <<Call("open_position", "failure")>>)

\* mutant: a successful close is logged whether a position is tracked or not
close_position_reason_AlwaysLogs(position, reason, result) ==
    IF result = "success"
    THEN Outcome(FALSE, None, <<LiveEvent("position_closed", reason)>>,
                 <<Call("close_position", result)>>)
    ELSE Outcome(FALSE, position, <<>>, <<Call("close_position", result)>>)

\* mutant: the tracked position is dropped whatever the close order returned
close_position_reason_Drops(position, reason, result) ==
    Outcome(FALSE, None,
            IF result = "success" /\ position # None
            THEN <<LiveEvent("position_closed", reason)>> ELSE <<>>,
            <<Call("close_position", result)>>)

\* lines 270-294
close_position_reason(position, reason, result) ==
    IF result = "success"
    THEN Outcome(FALSE, None,
                 IF position # None
                 THEN <<LiveEvent("position_closed", reason)>> ELSE <<>>,
                 <<Call("close_position", result)>>)
    ELSE Outcome(FALSE, position, <<>>, <<Call("close_position", result)>>)

StopReached(p, mark_price) ==
    IF p.type = "LONG"
    THEN mark_price * p.stop_loss.den <= p.stop_loss.num
    ELSE mark_price * p.stop_loss.den >= p.stop_loss.num

\* lines 231-268
check_and_close_positions(position, t, positions_reply, stop_close, end_close) ==
    LET fetched == <<Call("get_open_positions", positions_reply.kind)>>
        nothing == Outcome(FALSE, position, <<>>, <<>>)
        stop == IF StopReached(Get(position), positions_reply.mark_price)
                THEN close_position_reason(position, "stop_loss", stop_close)
                ELSE nothing
        end == IF SpainHour(t) >= 16
               THEN close_position_reason(stop.position, "session_end", end_close)
               ELSE Outcome(FALSE, stop.position, <<>>, <<>>)
    IN
    IF position = None THEN nothing
    ELSE IF positions_reply.kind = "raises" THEN Outcome(TRUE, position, <<>>, fetched)
    ELSE IF positions_reply.kind = "none"
    THEN IF JsonDumpsRaises(Get(position))
         THEN Outcome(TRUE, position, <<>>, fetched)
         ELSE Outcome(FALSE, None, <<LiveEvent("position_closed_externally", "")>>,
                      fetched)
    ELSE Outcome(FALSE, end.position, stop.events \o end.events,
                 fetched \o stop.calls \o end.calls)

\* mutant: the early return on session_started is missing
SessionDue_IgnoresStarted(t, started) == should_trade_today(t) /\ is_open_time(t)

\* the three early returns of run_trading_session do not apply
SessionDue(t, started) == should_trade_today(t) /\ is_open_time(t) /\ ~started

\* lines 310-342; registers: start_position_monitoring was reached
run_trading_session(position, started, t, candle_reply, d, positions_reply, balance_reply, order_reply) ==
    LET fetched == <<Call("get_ohlcv_data", candle_reply)>>
        o == execute_trading_decision(position, d, t, positions_reply,
                                      balance_reply, order_reply)
        Result(outcome, session_started_after, registers) ==
            [outcome |-> outcome, session_started |-> session_started_after,
             registers |-> registers]
    IN
    IF ~SessionDue(t, started)
    THEN Result(Outcome(FALSE, position, <<>>, <<>>), started, FALSE)
    ELSE IF candle_reply = "raises"
    THEN Result(Outcome(FALSE, position,
                        <<LiveEvent("error", "candles"),
                          LiveEvent("error", "insufficient_candles")>>, fetched),
                started, FALSE)
    ELSE IF candle_reply = "few"
    THEN Result(Outcome(FALSE, position,
                        <<LiveEvent("error", "insufficient_candles")>>, fetched),
                started, FALSE)
    ELSE IF o.raises
    THEN Result(Outcome(TRUE, position, o.events, fetched \o o.calls), started, FALSE)
    ELSE Result(Outcome(FALSE, o.position, o.events, fetched \o o.calls), TRUE, TRUE)

-----------------------------------------------------------------------------
(* The polling loop of LiveTradingBot.run: once a minute the scheduled jobs
   run in the order of their registration. *)

\* sessions the exchange's candles amount to: no entry, a LONG, a SHORT
LiveSession(five, first, second, rest) ==
    Session("pre", five, "flat",
            [k \in 1..StratTail |->
                IF k = 1 THEN first ELSE IF k = 2 THEN second ELSE rest])

LiveSessions ==
    {LiveSession("flat", "flat", "flat", "flat"),
     LiveSession("down", "touch", "down", "flat"),
     LiveSession("up", "up", "flat", "down")}

LiveEnd == LiveDays * MinutesPerDay

LiveInit ==
    /\ SchedulerAbsent
    /\ ServiceAbsent
    /\ StrategyAbsent
    /\ now = 0
    /\ live_pc = "sleep"
    /\ session_started = FALSE
    /\ live_position = None
    /\ monitoring_jobs = 0
    /\ jobs_left = 0
    /\ live_events = <<LiveEvent("bot_started", "")>>
    /\ live_calls = <<>>

\* a minute passes: the jobs fall due; at 00:00 UTC the loop resets the flag
LiveTick ==
    /\ live_pc = "sleep"
    /\ now + 1 < LiveEnd
    /\ now' = now + 1
    /\ session_started' = IF UtcMinuteOfDay(now') = 0 THEN FALSE ELSE session_started
    /\ live_pc' = "run_trading_session"
    /\ jobs_left' = 1 + monitoring_jobs
    /\ UNCHANGED <<live_position, monitoring_jobs, live_events, live_calls,
                   schedVars, stratVars, serviceVars>>

\* get_candles_for_analysis at time t: of the day's candles the exchange
\* holds those of the last four hours, none later than t
CandlesAt(session, t) ==
    LET shift == check_ny_open_time(t) - calculate_ny_open_time(1)
        today == [i \in 1..Len(session) |->
                     [session[i] EXCEPT !.timestamp = session[i].timestamp + shift]]
    IN  SelectSeq(today, LAMBDA c : t - 4 * 60 <= c.timestamp /\ c.timestamp <= t)

\* the decisions analyze_session takes at time t
LiveDecisionsAt(t) == {analyze_session(CandlesAt(session, t)) : session \in LiveSessions}

\* the decisions analyze_session takes on those sessions once they are complete
LiveDecisions == {analyze_session(session) : session \in LiveSessions}

\* the job run_trading_session; the exchange is asked only when a session is due
RunTradingSession ==
    /\ live_pc = "run_trading_session"
    /\ \E candle_reply \in IF SessionDue(now, session_started)
                            THEN CandleReplies ELSE {"enough"},
          d \in IF SessionDue(now, session_started)
                THEN LiveDecisionsAt(now) ELSE {analyze_session(<<>>)},
          positions_reply \in IF SessionDue(now, session_started)
                               THEN PositionsReplies ELSE {NoPositions},
          balance_reply \in IF SessionDue(now, session_started)
                             THEN BalanceReplies ELSE {BalanceRaises},
          order_reply \in IF SessionDue(now, session_started)
                           THEN OrderReplies ELSE {"failure"} :
          LET r == run_trading_session(live_position, session_started, now,
                                       candle_reply, d, positions_reply,
                                       balance_reply, order_reply)
          IN  /\ live_position' = r.outcome.position
              /\ live_events' = r.outcome.events
              /\ live_calls' = r.outcome.calls
              /\ session_started' = r.session_started
              /\ monitoring_jobs' = monitoring_jobs + (IF r.registers THEN 1 ELSE 0)
              /\ jobs_left' = jobs_left + (IF r.registers THEN 1 ELSE 0)
              /\ live_pc' = IF r.outcome.raises THEN "crashed"
                            ELSE "check_and_close_positions"
    /\ UNCHANGED <<now, schedVars, stratVars, serviceVars>>

\* a job check_and_close_positions
CheckAndClosePositions ==
    /\ live_pc = "check_and_close_positions"
    /\ \E positions_reply \in IF live_position # None
                               THEN PositionsReplies ELSE {NoPositions},
          stop_close \in IF live_position # None THEN OrderReplies ELSE {"failure"},
          end_close \in IF live_position # None THEN OrderReplies ELSE {"failure"} :
          LET o == check_and_close_positions(live_position, now, positions_reply,
                                             stop_close, end_close)
          IN  /\ live_position' = o.position
              /\ live_events' = o.events
              /\ live_calls' = o.calls
              /\ jobs_left' = IF o.raises THEN jobs_left ELSE jobs_left - 1
              /\ live_pc' = IF o.raises THEN "crashed"
                            ELSE IF jobs_left = 1 THEN "sleep"
                            ELSE "check_and_close_positions"
    /\ UNCHANGED <<now, session_started, monitoring_jobs, schedVars, stratVars, serviceVars>>

\* the except clause of run: lines 387-396
KeyboardInterrupt ==
    /\ live_pc = "sleep"
    /\ live_pc' = "stopped"
    /\ live_events' = <<LiveEvent("bot_stopped", "")>>
    /\ \E result \in OrderReplies :
          live_calls' = IF live_position # None
                        THEN <<Call("close_position", result)>> ELSE <<>>
    /\ UNCHANGED <<now, session_started, live_position, monitoring_jobs, jobs_left,
                   schedVars, stratVars, serviceVars>>

LiveNext ==
    \/ LiveTick
    \/ RunTradingSession
    \/ CheckAndClosePositions
    \/ KeyboardInterrupt

SpecLive == LiveInit /\ [][LiveNext]_vars

\* The handlers from every state of the bot object.  The call of
\* open_position in execute_trading_decision raises before an order is placed,
\* so a run that starts at construction never tracks a position; here the bot
\* starts with any value its field current_position is given by line 209.
TrackedPositions ==
    {LivePosition(d, 500, 0) : d \in {e \in LiveDecisions : e.entry_type # "NO_ENTRY"}}

LiveTrackedInit ==
    /\ SchedulerAbsent
    /\ ServiceAbsent
    /\ StrategyAbsent
    /\ now = 0
    /\ live_pc = "sleep"
    /\ session_started \in BOOLEAN
    /\ live_position \in {None} \cup {Some(p) : p \in TrackedPositions}
    /\ monitoring_jobs = 0
    /\ jobs_left = 0
    /\ live_events = <<LiveEvent("bot_started", "")>>
    /\ live_calls = <<>>

SpecLiveTracked == LiveTrackedInit /\ [][LiveNext]_vars

-----------------------------------------------------------------------------
(* Reading the log *)

LastIndexOf(type) ==
    LET S == {i \in 1..Len(log) : log[i].type = type} IN
    IF S = {} THEN 0 ELSE CHOOSE i \in S : \A j \in S : j <= i

\* the events of the latest session, by type
SessionEvents(type) ==
    {i \in (LastIndexOf("session_start") + 1)..Len(log) : log[i].type = type}

\* the events a step appends
Appended == SubSeq(log', Len(log) + 1, Len(log'))
AppendedTypes == {Appended[i].type : i \in 1..Len(Appended)}

PositionIsOpen == current_position # <<>> /\ current_position[1].is_open

-----------------------------------------------------------------------------
(* C1: in any run of the scheduler the simulator's open position is never    *)
(* replaced by another position, and open_virtual_position is invoked (an    *)
(* open_virtual_position event is logged) only from states in which the      *)
(* simulator has no open position.                                           *)

C1_OpenOnlyWhenFlat ==
    [][ /\ "open_virtual_position" \in AppendedTypes => ~PositionIsOpen
        /\ PositionIsOpen =>
              \/ current_position' = current_position
              \/ current_position' = <<[current_position[1] EXCEPT !.is_open = FALSE]>>
      ]_vars

\* a position opened again after an earlier one was stopped out
C1_Witness == PositionIsOpen /\ trades_today >= 1

(* C2: within one session at most max_trades_per_session positions are       *)
(* opened, and a loop step taken once max_trades_per_session trades have     *)
(* occurred leaves the loop without a mark, a stop check or a signal.        *)

C2_TradeLimit ==
    [][ /\ Cardinality(SessionEvents("open_virtual_position"))' <= max_trades_per_session
        /\ (pc = "loop" /\ trades_today >= max_trades_per_session) =>
              /\ pc' = "close"
              /\ UNCHANGED <<log, current_position, trades_today, idx>>
      ]_vars

\* the loop was left on the trade limit with a candle still to process
C2_Witness ==
    /\ pc = "close"
    /\ trades_today = max_trades_per_session
    /\ idx <= Len(EvaluationCandles)

(* C3: a session that went through its evaluation loop has logged exactly    *)
(* one session_close event, and that event carries the realized PnL exactly *)
(* when a position was still open at the end of the loop.                    *)

SessionWentThroughLoop ==
    /\ pc \in {"days", "done"}
    /\ LastIndexOf("session_start") > 0
    /\ SessionEvents("range_built") # {}
    /\ SessionEvents("cancel_setup") = {}
    /\ SessionEvents("error") = {}

OpenAtLoopEnd ==
    /\ SessionEvents("open_virtual_position") # {}
    /\ \A i \in SessionEvents("stop_out") :
          \E j \in SessionEvents("open_virtual_position") : j > i

C3_ExactlyOneSessionClose ==
    SessionWentThroughLoop =>
        /\ Cardinality(SessionEvents("session_close")) = 1
        /\ \A i \in SessionEvents("session_close") :
              OpenAtLoopEnd <=> "pnl_virtual" \in DOMAIN log[i]

(* C4: every position the scheduler opens has its stop strictly on the loss  *)
(* side of its entry: below the entry for a long, above it for a short.      *)

C4_StopOnLossSide ==
    current_position # <<>> =>
        LET p == current_position[1] IN
        IF p.direction = "long"
        THEN p.stop_price < p.entry_price * PriceScale
        ELSE p.stop_price > p.entry_price * PriceScale

C4_Witness == PositionIsOpen /\ current_position[1].direction = "short"

(* C5: when the setup of run_session fails (invalid feed, fewer than 3       *)
(* pre-open candles, fewer than 5 session candles, no candle at or after     *)
(* wait_until) the session logs session_start, at most a range_built, and a  *)
(* final cancel_setup, nothing else, and leaves the simulator's position as  *)
(* it was.                                                                   *)

SetupFails ==
    \/ ~validate_feed(feed, 5)
    \/ Len(get_candles_in_range(feed, NyOpen - pre_open_window_min, NyOpen)) < 3
    \/ Len(SessionCandles) < 5
    \/ \A i \in 1..Len(SessionCandles) : SessionCandles[i].timestamp < WaitUntil

C5_CancelledSetup ==
    [][ (pc = "days" /\ current_date <= end_date /\ ~SkipsDay /\ SetupFails) =>
            /\ Len(Appended) >= 2
            /\ Appended[Len(Appended)].type = "cancel_setup"
            /\ AppendedTypes \subseteq {"session_start", "range_built", "cancel_setup"}
            /\ current_position' = current_position
            /\ pc' = "days"
      ]_vars

\* a session cancelled while the simulator holds the (closed) position of an
\* earlier day
C5_Witness ==
    /\ log # <<>>
    /\ log[Len(log)].type = "cancel_setup"
    /\ current_position # <<>>

(* C6: when a day's processing raises, an error event carrying that date is  *)
(* logged, the run moves on to the next day, and the run ends only after the *)
(* last day of the range: the exception does not leave                       *)
(* run_on_historical_data.                                                   *)

DayRaises ==
    /\ pc = "loop" /\ idx <= Len(EvaluationCandles)
    /\ trades_today < max_trades_per_session
    /\ ~PositionIsOpen
    /\ DueSignal # <<>>
    /\ DueSignal[1].confirmation_price = 0

C6_DayExceptionContained ==
    [][ /\ DayRaises =>
              /\ Len(Appended) = 1
              /\ Appended[1].type = "error"
              /\ Appended[1].date = current_date
              /\ current_date' = current_date + 1
              /\ pc' = "days"
        /\ pc' \in {"days", "loop", "close", "done"}
        /\ pc' = "done" => current_date' > end_date
      ]_vars

\* a session that ran on a day after the day that raised
C6_Witness ==
    /\ LastIndexOf("error") > 0
    /\ LastIndexOf("session_start") > LastIndexOf("error")

(* C10: every signal the engine returns to the scheduler has breakout time   *)
(* < retest time < confirmation time, all three inside                       *)
(* [wait_until, end_time).                                                   *)

SignalOrdered(signal) ==
    signal # <<>> =>
        LET g == signal[1] IN
        /\ WaitUntil <= g.breakout_candle.timestamp
        /\ g.breakout_candle.timestamp < g.retest_candle.timestamp
        /\ g.retest_candle.timestamp < g.confirmation_time
        /\ g.confirmation_time < SessionEnd

C10_SignalOrder ==
    pc = "loop" => SignalOrdered(LongSignal) /\ SignalOrdered(ShortSignal)

\* a short signal whose retest was accepted on the candle that follows it
C10_Witness ==
    /\ pc = "loop"
    /\ ShortSignal # <<>>
    /\ ~is_bearish(ShortSignal[1].retest_candle)

-----------------------------------------------------------------------------
\* C9: a decision of analyze_session with entry_type "LONG" carries a
\* support_zone and the direction "down"; one with entry_type "SHORT" carries
\* a resistance_zone and the direction "up".
C9_EntryMatchesDirection ==
    session_decision # None =>
        LET d == Get(session_decision) IN
        /\ d.entry_type = "LONG" =>
               d.support_zone # None /\ d.direction_detected = "down"
        /\ d.entry_type = "SHORT" =>
               d.resistance_zone # None /\ d.direction_detected = "up"

\* analyze_session has returned a LONG entry
C9_Witness ==
    /\ session_decision # <<>>
    /\ session_decision[1].entry_type = "LONG"

-----------------------------------------------------------------------------
Called(calls, name, result) ==
    \E i \in 1..Len(calls) : calls[i] = Call(name, result)

Logged(events, event_type) ==
    \E i \in 1..Len(events) : events[i].event_type = event_type

\* C7: a per-minute job of the live bot in which an exchange call failed
\* (the call raised) does not end the polling loop of run.
C7_LoopSurvivesFailures ==
    ~(live_pc = "crashed" /\ \E i \in 1..Len(live_calls) : live_calls[i].result = "raises")

-----------------------------------------------------------------------------
\* C8: the live bot tracks at most one position; the position is set only by
\* a job in which open_position returned success; it is cleared only by a job
\* in which a close order returned success or in which the exchange reported
\* no open position and position_closed_externally was logged; a job whose
\* close orders all failed leaves the position tracked.
C8_TrackedPosition ==
    [][ /\ Len(live_position') <= 1
        /\ (live_position' # None /\ live_position' # live_position)
               => Called(live_calls', "open_position", "success")
        /\ (live_position # None /\ live_position' = None)
               => \/ Called(live_calls', "close_position", "success")
                  \/ /\ Called(live_calls', "get_open_positions", "none")
                     /\ Logged(live_events', "position_closed_externally")
        /\ ( /\ live_pc = "check_and_close_positions"
             /\ live_position # None
             /\ Called(live_calls', "close_position", "failure")
             /\ ~Called(live_calls', "close_position", "success") )
               => live_position' = live_position
      ]_vars

\* a job's close order failed and the position is still tracked
C8_Witness ==
    /\ live_pc \in {"sleep", "check_and_close_positions"}
    /\ live_position # None
    /\ Called(live_calls, "close_position", "failure")
    /\ ~Called(live_calls, "close_position", "success")

-----------------------------------------------------------------------------
(* tests/test_signal_engine.py: the fixture sample_candles and the test
   test_validate_long_signal *)

\* base_time = datetime(2024, 1, 15, 9, 0, 0), as minutes of day 1
base_time == calculate_ny_open_time(1) - 30

\* the candles of the fixture: `count` consolidation candles, then the
\* breakout, retest and confirmation candles, each moved up by its shift
SampleCandles(count, breakout_shift, retest_shift, confirm_shift, confirm_volume) ==
    LET ny_open == base_time + 30
        breakout_time == ny_open + 6
        retest_time == breakout_time + 2
        confirm_time == retest_time + 1
    IN  [i \in 1..count |->
            Candle(base_time + (i - 1), 50000 + (i - 1) * 10, 50100 + (i - 1) * 10,
                   49900 + (i - 1) * 10, 50000 + i * 10, 100 + (i - 1) * 5)]
        \o <<Candle(breakout_time, 50300 + breakout_shift, 50400 + breakout_shift,
                    50200 + breakout_shift, 50350 + breakout_shift, 200),
             Candle(retest_time, 50310 + retest_shift, 50320 + retest_shift,
                    50300 + retest_shift, 50315 + retest_shift, 150),
             Candle(confirm_time, 50320 + confirm_shift, 50380 + confirm_shift,
                    50315 + confirm_shift, 50370 + confirm_shift, confirm_volume)>>

\* the fixture as written
sample_candles == SampleCandles(30, 0, 0, 0, 250)

\* the fixture and candles of the same shape at other prices
SampleFeeds ==
    {SampleCandles(count, b, r, c, v) :
        count \in {2, 30}, b \in {0, 100}, r \in {0, 90, 150}, c \in {0, 100},
        v \in {150, 250}}

\* the keys of Signal.reasons on the path that returns a Signal
signal_reasons == {"breakout", "retest", "volume", "confirmation"}

\* the scheduler, the live bot, the strategy run no code
OthersAbsent == SchedulerAbsent /\ LiveAbsent /\ StrategyAbsent

\* only the engine group is in use
EngineAlone ==
    /\ OthersAbsent
    /\ FeedAbsent
    /\ SimAbsent
    /\ WeekAbsent
    /\ DownloadAbsent
EngineOnly == UNCHANGED <<schedVars, liveVars, stratVars, feedVars, simVars, weekVars, downloadVars>>

\* only the feed group is in use
FeedAlone ==
    /\ OthersAbsent
    /\ EngineAbsent
    /\ SimAbsent
    /\ WeekAbsent
    /\ DownloadAbsent
FeedOnly == UNCHANGED <<schedVars, liveVars, stratVars, engineVars, simVars, weekVars, downloadVars>>

\* only the sim group is in use
SimAlone ==
    /\ OthersAbsent
    /\ EngineAbsent
    /\ FeedAbsent
    /\ WeekAbsent
    /\ DownloadAbsent
SimOnly == UNCHANGED <<schedVars, liveVars, stratVars, engineVars, feedVars, weekVars, downloadVars>>

\* only the week group is in use
WeekAlone ==
    /\ OthersAbsent
    /\ EngineAbsent
    /\ FeedAbsent
    /\ SimAbsent
    /\ DownloadAbsent
WeekOnly == UNCHANGED <<schedVars, liveVars, stratVars, engineVars, feedVars, simVars, downloadVars>>

\* only the download group is in use
DownloadAlone ==
    /\ OthersAbsent
    /\ EngineAbsent
    /\ FeedAbsent
    /\ SimAbsent
    /\ WeekAbsent
DownloadOnly == UNCHANGED <<schedVars, liveVars, stratVars, engineVars, feedVars, simVars, weekVars>>

SignalTestInit ==
    /\ EngineAlone
    /\ test_candles \in SampleFeeds
    /\ test_aware \in BOOLEAN
    /\ test_range = None
    /\ test_signal = None
    /\ test_pc = "build_pre_open_range"

\* range_obj = signal_engine.build_pre_open_range(feed, ny_open) and the
\* assert after it; get_candles_in_range localizes its naive bounds and
\* compares them with the candles' timestamps, which raises TypeError when
\* those are naive
TestBuildPreOpenRange ==
    /\ test_pc = "build_pre_open_range"
    /\ LET range_obj == build_pre_open_range(test_candles, base_time + 30) IN
       IF ~test_aware
       THEN test_pc' = "TypeError" /\ test_range' = test_range
       ELSE /\ test_range' = range_obj
            /\ test_pc' = IF range_obj = None THEN "AssertionError"
                          ELSE "validate_long_signal"
    /\ UNCHANGED <<test_candles, test_aware, test_signal>>
    /\ EngineOnly

\* signal = signal_engine.validate_long_signal(feed, ny_open, wait_until),
\* with end_time defaulting to wait_until + 8 hours
TestValidateLongSignal ==
    /\ test_pc = "validate_long_signal"
    /\ LET ny_open == base_time + 30
           wait_until == ny_open + wait_after_open_min
       IN  test_signal' = validate_long_signal(test_candles, test_range, ny_open,
                                               wait_until, wait_until + 8 * 60)
    /\ test_pc' = "done"
    /\ UNCHANGED <<test_candles, test_aware, test_range>>
    /\ EngineOnly

SignalTestNext ==
    \/ TestBuildPreOpenRange
    \/ TestValidateLongSignal

SpecSignalTest == SignalTestInit /\ [][SignalTestNext]_vars

\* C11: on the fixture sample_candles, once the range is built,
\* validate_long_signal with wait_until = open + 5 min returns a Signal of
\* direction long whose confirmation_price is the close of the +9 min candle
\* and whose reasons hold the keys breakout and retest.
C11_FixtureGivesLongSignal ==
    (test_candles = sample_candles /\ test_pc \in {"TypeError", "AssertionError", "done"})
        => /\ test_pc = "done"
           /\ test_signal # None
           /\ Get(test_signal).direction = "long"
           /\ Get(test_signal).confirmation_price = sample_candles[33].close
           /\ {"breakout", "retest"} \subseteq signal_reasons

\* other candles of the fixture's shape do give the signal
C11_ShiftedFixtureSignals ==
    /\ test_pc = "done"
    /\ test_signal # None
    /\ Get(test_signal).direction = "long"

-----------------------------------------------------------------------------
(* data_feed.py: a DataFeed (timezone "UTC") filled by load_from_csv and
   add_candle *)

MaxRows == 2
MaxFeedLen == 4

\* a datetime: wall-clock minutes and, unless naive, its UTC offset
Datetime(wall, naive, utcoffset) ==
    [wall |-> wall, naive |-> naive, utcoffset |-> utcoffset]

\* timezone.localize(ts) for a naive ts, ts.astimezone(timezone) otherwise:
\* the minutes on the feed's own (UTC) clock
normalize_timestamp(ts) ==
    IF ts.naive THEN ts.wall ELSE ts.wall - ts.utcoffset

Datetimes ==
    {Datetime(wall, TRUE, 0) : wall \in 60..62}
        \cup {Datetime(wall, FALSE, 60) : wall \in 60..62}

\* a CSV row: its timestamp cell, and whether its cells parse
CsvRow(ts, parses) == [timestamp |-> ts, parses |-> parses]
CsvRows ==
    {CsvRow(ts, TRUE) : ts \in Datetimes} \cup {CsvRow(Datetime(60, TRUE, 0), FALSE)}
CsvFiles == UNION {[1..n -> CsvRows] : n \in 0..MaxRows}

\* load_from_csv: rows that fail to parse are skipped, the rest sorted
load_from_csv(rows) ==
    LET good == SelectSeq(rows, LAMBDA row : row.parses)
        candles == [i \in 1..Len(good) |->
                       Candle(normalize_timestamp(good[i].timestamp),
                              50000, 50100, 49900, 50200, 100)]
    IN  SortByTimestamp(candles)

\* mutant: the new candle stays where it was appended
add_candle_Unsorted(candles, timestamp, open_price, high, low, close, volume) ==
    Append(candles, Candle(normalize_timestamp(timestamp), open_price, high, low,
                           close, volume))

\* add_candle: the candles after the call
add_candle(candles, timestamp, open_price, high, low, close, volume) ==
    SortByTimestamp(Append(candles, Candle(normalize_timestamp(timestamp),
                                           open_price, high, low, close, volume)))

FeedResult(call, value) == Some([call |-> call, value |-> value])

FeedInit ==
    /\ FeedAlone
    /\ feed_candles = <<>>
    /\ feed_result = None

LoadFromCsv ==
    /\ \E rows \in CsvFiles :
          /\ feed_candles' = load_from_csv(rows)
          /\ feed_result' = FeedResult("load_from_csv", load_from_csv(rows))
    /\ FeedOnly

AddCandle ==
    /\ Len(feed_candles) < MaxFeedLen
    /\ \E timestamp \in Datetimes :
          /\ feed_candles' = add_candle(feed_candles, timestamp, 50000, 50100,
                                        49900, 50200, 100)
          /\ feed_result' =
                FeedResult("add_candle",
                           <<Candle(normalize_timestamp(timestamp), 50000, 50100,
                                    49900, 50200, 100)>>)
    /\ FeedOnly

FeedNext ==
    \/ LoadFromCsv
    \/ AddCandle

SpecFeed == FeedInit /\ [][FeedNext]_vars

\* C12: after any sequence of load_from_csv and add_candle calls, whatever the
\* order of the timestamps supplied, the stored candles are in non-decreasing
\* order of timestamp.
C12_FeedSorted ==
    \A i \in 1..(Len(feed_candles) - 1) :
        feed_candles[i].timestamp <= feed_candles[i + 1].timestamp

\* a candle was added whose timestamp is before the feed's last one
C12_Witness ==
    /\ feed_result # None
    /\ Get(feed_result).call = "add_candle"
    /\ Len(feed_candles) >= 3
    /\ Get(feed_result).value[1].timestamp < feed_candles[Len(feed_candles)].timestamp

-----------------------------------------------------------------------------
(* data_feed.py: validate_feed on feeds of every shape *)

MaxValidateLen == 3

\* the error_message component of validate_feed's result: the first candle,
\* from the second on, that is too far from its predecessor or, failing that,
\* has invalid OHLCV decides it
validate_feed_message(cs, max_gap_minutes) ==
    LET failing == {i \in 2..Len(cs) :
                       \/ cs[i].timestamp - cs[i - 1].timestamp > max_gap_minutes
                       \/ ~ValidOHLCV(cs[i])}
    IN  IF Len(cs) < 2 \/ failing = {} THEN None
        ELSE LET i == SetMin(failing) IN
             IF cs[i].timestamp - cs[i - 1].timestamp > max_gap_minutes
             THEN Some("Feed gap detected")
             ELSE Some("Invalid OHLCV data")

OhlcvCandle(name, t) ==
    CASE name = "valid" -> Candle(t, 50000, 50100, 49900, 50050, 100)
      [] name = "open_below_low" -> Candle(t, 49800, 50100, 49900, 50050, 100)
      [] name = "close_above_high" -> Candle(t, 50000, 50100, 49900, 50200, 100)
      [] name = "negative_volume" -> Candle(t, 50000, 50100, 49900, 50050, -1)

OhlcvNames == {"valid", "open_below_low", "close_above_high", "negative_volume"}
GapMinutes == {1, 5, 6}

RECURSIVE TimestampAfter(_, _)
TimestampAfter(gaps, i) ==
    IF i = 1 THEN 0 ELSE TimestampAfter(gaps, i - 1) + gaps[i - 1]

\* the feeds add_candle can build from these candles: ordered by timestamp
ValidateFeeds ==
    UNION {{[i \in 1..n |-> OhlcvCandle(names[i], TimestampAfter(gaps, i))] :
               names \in [1..n -> OhlcvNames], gaps \in [1..(n - 1) -> GapMinutes]} :
           n \in 0..MaxValidateLen}

ValidateInit ==
    /\ FeedAlone
    /\ feed_candles \in ValidateFeeds
    /\ feed_result = None

ValidateFeed ==
    /\ \E max_gap_minutes \in {1, 5} :
          feed_result' =
              FeedResult("validate_feed",
                         [max_gap_minutes |-> max_gap_minutes,
                          is_valid |-> validate_feed(feed_candles, max_gap_minutes),
                          error_message |->
                              validate_feed_message(feed_candles, max_gap_minutes)])
    /\ UNCHANGED feed_candles
    /\ FeedOnly

ValidateNext == ValidateFeed

SpecValidate == ValidateInit /\ [][ValidateNext]_vars

\* a consecutive pair more than max_gap_minutes apart, or a candle with
\* invalid OHLCV anywhere in the feed
FeedDefective(cs, max_gap_minutes) ==
    \/ \E i \in 2..Len(cs) : cs[i].timestamp - cs[i - 1].timestamp > max_gap_minutes
    \/ \E i \in 1..Len(cs) : ~ValidOHLCV(cs[i])

\* C13: on two or more candles validate_feed returns invalid with a message
\* whenever a consecutive pair is more than max_gap_minutes apart or some
\* candle of the feed has invalid OHLCV, and (valid, no message) otherwise;
\* on fewer than two candles it returns valid.
C13_ValidateFeedComplete ==
    feed_result # None =>
        LET r == Get(feed_result).value IN
        IF Len(feed_candles) >= 2 /\ FeedDefective(feed_candles, r.max_gap_minutes)
        THEN ~r.is_valid /\ r.error_message # None
        ELSE r.is_valid /\ r.error_message = None

\* the same with the first candle's OHLCV left out of the condition
C13_FromSecondCandle ==
    feed_result # None =>
        LET r == Get(feed_result).value
            cs == feed_candles
        IN  IF /\ Len(cs) >= 2
               /\ \/ FeedDefective(SubSeq(cs, 2, Len(cs)), r.max_gap_minutes)
                  \/ cs[2].timestamp - cs[1].timestamp > r.max_gap_minutes
            THEN ~r.is_valid /\ r.error_message # None
            ELSE r.is_valid /\ r.error_message = None

-----------------------------------------------------------------------------
(* service/analyze_week.py: simulate_session_end_price *)

MaxSimLen == 3

\* stop_pct = 0.02
stop_pct == [num |-> 2, den |-> 100]

\* an aware datetime: the instant and the zone its clock shows
Aware(instant, tz) == [instant |-> instant, tz |-> tz]

TzOffset(tz) == IF tz = "UTC" THEN NyToUtcMinutes ELSE NyToSpainMinutes

\* entry_time.replace(hour=16, minute=0): 16:00 of the same date on the clock
\* of entry_time's own zone
replace_hour_16(entry_time) ==
    LET wall == entry_time.instant + TzOffset(entry_time.tz) IN
    (wall \div MinutesPerDay) * MinutesPerDay + 16 * 60 - TzOffset(entry_time.tz)

SimCall(candles, entry_price, entry_time, entry_type, use_tp, use_trailing) ==
    [candles |-> candles, entry_price |-> entry_price, entry_time |-> entry_time,
     entry_type |-> entry_type, use_tp |-> use_tp, use_trailing |-> use_trailing]

\* the returned tuple (exit_price, exit_reason, exit_minute, partial price)
SimResult(exit_price, exit_reason, exit_minute, partial_tp_price) ==
    [exit_price |-> exit_price, exit_reason |-> exit_reason,
     exit_minute |-> exit_minute, partial_tp_price |-> partial_tp_price]

\* the candles with ts > entry_time, reduced to timestamp, high, low, close
after_entry(candles, entry_time) ==
    LET later == SelectSeq(candles, LAMBDA c : c.timestamp > entry_time.instant) IN
    [i \in 1..Len(later) |->
        [timestamp |-> later[i].timestamp, high |-> later[i].high,
         low |-> later[i].low, close |-> later[i].close]]

initial_stop_price(entry_type, entry_price) ==
    IF entry_type = "LONG"
    THEN (entry_price * (stop_pct.den - stop_pct.num)) \div stop_pct.den
    ELSE (entry_price * (stop_pct.den + stop_pct.num)) \div stop_pct.den

\* entry_price * 1.025 for a LONG, entry_price * 0.975 for a SHORT
take_profit_price(entry_type, entry_price) ==
    IF entry_type = "LONG" THEN (entry_price * 1025) \div 1000
    ELSE (entry_price * 975) \div 1000

\* mutant: the stop is tested against the wrong extreme of the candle
BreachesStop_WrongExtreme(entry_type, candle, stop) ==
    IF entry_type = "LONG" THEN candle.high <= stop ELSE candle.low >= stop

BreachesStop(entry_type, candle, stop) ==
    IF entry_type = "LONG" THEN candle.low <= stop ELSE candle.high >= stop

ReachesTakeProfit(entry_type, entry_price, candle) ==
    IF entry_type = "LONG"
    THEN candle.high >= take_profit_price(entry_type, entry_price)
    ELSE candle.low <= take_profit_price(entry_type, entry_price)

\* mutant: the break-even move is made without looking at the current stop
trailing_stop_Unguarded(entry_type, entry_price, close, stop) ==
    IF entry_type = "LONG"
    THEN LET s == IF close * 100 >= entry_price * 102 THEN entry_price ELSE stop
             new_stop == (entry_price * 101) \div 100
         IN  IF close * 100 >= entry_price * 104 /\ new_stop > s THEN new_stop ELSE s
    ELSE LET s == IF close * 100 <= entry_price * 98 THEN entry_price ELSE stop
             new_stop == (entry_price * 99) \div 100
         IN  IF close * 100 <= entry_price * 96 /\ new_stop < s THEN new_stop ELSE s

\* steps 3 and 4 of the loop body: the stop after a candle closing at `close`
trailing_stop(entry_type, entry_price, close, stop) ==
    IF entry_type = "LONG"
    THEN LET s == IF close * 100 >= entry_price * 102 /\ stop < entry_price
                  THEN entry_price ELSE stop
             new_stop == (entry_price * 101) \div 100
         IN  IF close * 100 >= entry_price * 104 /\ new_stop > s THEN new_stop ELSE s
    ELSE LET s == IF close * 100 <= entry_price * 98 /\ stop > entry_price
                  THEN entry_price ELSE stop
             new_stop == (entry_price * 99) \div 100
         IN  IF close * 100 <= entry_price * 96 /\ new_stop < s THEN new_stop ELSE s

WalkStep(returns, result, stop, tp) ==
    [returns |-> returns, result |-> result, current_stop_price |-> stop,
     tp_activated |-> tp]

\* mutant: the take-profit check comes before the stop-loss check
walk_candle_TakeProfitFirst(call, candle, stop, tp) ==
    LET hit == call.use_tp /\ ~tp
               /\ ReachesTakeProfit(call.entry_type, call.entry_price, candle)
    IN  IF BreachesStop(call.entry_type, candle, stop)
        THEN WalkStep(TRUE,
                      Some(SimResult(stop, "stop_loss",
                                     candle.timestamp - call.entry_time.instant, None)),
                      stop, tp \/ hit)
        ELSE WalkStep(FALSE, None,
                      IF call.use_trailing
                      THEN trailing_stop(call.entry_type, call.entry_price,
                                         candle.close, stop)
                      ELSE stop,
                      tp \/ hit)

\* one pass through the body of the loop over candles_after_entry
walk_candle(call, candle, stop, tp) ==
    IF BreachesStop(call.entry_type, candle, stop)
    THEN WalkStep(TRUE,
                  Some(SimResult(stop, "stop_loss",
                                 candle.timestamp - call.entry_time.instant, None)),
                  stop, tp)
    ELSE WalkStep(FALSE, None,
                  IF call.use_trailing
                  THEN trailing_stop(call.entry_type, call.entry_price,
                                     candle.close, stop)
                  ELSE stop,
                  tp \/ (call.use_tp /\ ~tp
                         /\ ReachesTakeProfit(call.entry_type, call.entry_price, candle)))

\* the code after the loop: close at the session end
session_end_result(call, after, tp) ==
    LET session_end == replace_hour_16(call.entry_time)
        late == {i \in 1..Len(after) : after[i].timestamp > session_end}
        k == IF late = {} THEN Len(after) ELSE SetMin(late) - 1
        last == IF k > 0 THEN after[k] ELSE after[Len(after)]
    IN  SimResult(last.close,
                  IF tp THEN "session_end_with_partial_tp" ELSE "session_end",
                  last.timestamp - call.entry_time.instant,
                  IF tp THEN Some(take_profit_price(call.entry_type, call.entry_price))
                  ELSE None)

\* Inputs: an entry at 09:45 New York (15:45 Madrid, 14:45 UTC) of day 1 at
\* price 100000, and candles of these shapes; a SHORT gets the mirror image
SimEntryPrice == 100 * 1000
SimEntryInstant == calculate_ny_open_time(1) + 15

SimShapeLong(name, t) ==
    CASE name = "flat" -> [timestamp |-> t, high |-> 100500, low |-> 99500, close |-> 100000]
      [] name = "stop" -> [timestamp |-> t, high |-> 100100, low |-> 97900, close |-> 98500]
      [] name = "stop_and_tp" -> [timestamp |-> t, high |-> 102600, low |-> 98000, close |-> 100100]
      [] name = "up2" -> [timestamp |-> t, high |-> 102100, low |-> 101500, close |-> 102000]
      [] name = "up4" -> [timestamp |-> t, high |-> 104000, low |-> 101500, close |-> 104000]

SimShape(name, t, entry_type) ==
    LET c == SimShapeLong(name, t) IN
    IF entry_type = "LONG" THEN c
    ELSE [timestamp |-> t, high |-> 2 * SimEntryPrice - c.low,
          low |-> 2 * SimEntryPrice - c.high, close |-> 2 * SimEntryPrice - c.close]

SimShapeNames == {"flat", "stop", "stop_and_tp", "up2", "up4"}

\* minutes after the entry: 15 is 16:00 in Madrid, 75 is 16:00 UTC
SimOffsets == {5, 15, 16, 76}

\* the entry candle followed by up to MaxSimLen later candles, in time order
SimCandleLists(entry_type) ==
    UNION {{<<SimShape("flat", SimEntryInstant, entry_type)>>
                \o [i \in 1..n |-> SimShape(names[i], SimEntryInstant + offsets[i],
                                            entry_type)] :
               names \in [1..n -> SimShapeNames],
               offsets \in {f \in [1..n -> SimOffsets] :
                               \A i \in 1..n : \A j \in 1..n : i < j => f[i] < f[j]}} :
           n \in 0..MaxSimLen}

SimInit ==
    /\ SimAlone
    /\ \E entry_type \in {"LONG", "SHORT"} :
          \E candles \in SimCandleLists(entry_type) :
              \E tz \in {"UTC", "Europe/Madrid"}, use_tp \in BOOLEAN, use_trailing \in BOOLEAN :
                  sim_call = SimCall(candles, SimEntryPrice, Aware(SimEntryInstant, tz),
                                     entry_type, use_tp, use_trailing)
    /\ candles_after_entry = <<>>
    /\ sim_pc = "start"
    /\ sim_idx = 0
    /\ current_stop_price = 0
    /\ tp_activated = FALSE
    /\ sim_result = None

\* lines 111-162 and 194-199: the entry time, candles_after_entry, the return
\* when there is none, the initial stop
SimStart ==
    /\ sim_pc = "start"
    /\ LET after == after_entry(sim_call.candles, sim_call.entry_time)
           last_candle == sim_call.candles[Len(sim_call.candles)]
       IN  /\ candles_after_entry' = after
           /\ IF after = <<>>
              THEN /\ sim_result' = Some(SimResult(last_candle.close, "session_end", 0, None))
                   /\ sim_pc' = "done"
                   /\ UNCHANGED <<sim_idx, current_stop_price>>
              ELSE /\ current_stop_price' =
                         initial_stop_price(sim_call.entry_type, sim_call.entry_price)
                   /\ sim_idx' = 1
                   /\ sim_pc' = "walk"
                   /\ UNCHANGED sim_result
    /\ UNCHANGED <<sim_call, tp_activated>>
    /\ SimOnly

\* lines 165-191 and 201-227: the loop's body on the candle at sim_idx
WalkCandle ==
    /\ sim_pc = "walk"
    /\ sim_idx <= Len(candles_after_entry)
    /\ LET step == walk_candle(sim_call, candles_after_entry[sim_idx],
                               current_stop_price, tp_activated)
       IN  /\ current_stop_price' = step.current_stop_price
           /\ tp_activated' = step.tp_activated
           /\ sim_result' = step.result
           /\ sim_pc' = IF step.returns THEN "done" ELSE "walk"
           /\ sim_idx' = IF step.returns THEN sim_idx ELSE sim_idx + 1
    /\ UNCHANGED <<sim_call, candles_after_entry>>
    /\ SimOnly

\* lines 231-255: the stop was never hit
SimSessionEnd ==
    /\ sim_pc = "walk"
    /\ sim_idx > Len(candles_after_entry)
    /\ sim_result' = Some(session_end_result(sim_call, candles_after_entry, tp_activated))
    /\ sim_pc' = "done"
    /\ UNCHANGED <<sim_call, candles_after_entry, sim_idx, current_stop_price,
                   tp_activated>>
    /\ SimOnly

SimNext ==
    \/ SimStart
    \/ WalkCandle
    \/ SimSessionEnd

SpecSimulate == SimInit /\ [][SimNext]_vars

\* the candle the loop is at breaches the stop and reaches the 2.5 % level
BreachAndTakeProfit ==
    /\ sim_idx \in 1..Len(candles_after_entry)
    /\ BreachesStop(sim_call.entry_type, candles_after_entry[sim_idx], current_stop_price)
    /\ ReachesTakeProfit(sim_call.entry_type, sim_call.entry_price,
                         candles_after_entry[sim_idx])

\* C14: a candle that both breaches the current stop and reaches the 2.5 %
\* take-profit level ends the call with (current stop price, stop_loss,
\* minutes since entry, no partial price), and does not set the take-profit
\* flag.
C14_StopBeforeTakeProfit ==
    [][(sim_pc = "walk" /\ BreachAndTakeProfit)
          => /\ sim_pc' = "done"
             /\ sim_result' =
                   Some(SimResult(current_stop_price, "stop_loss",
                                  candles_after_entry[sim_idx].timestamp
                                      - sim_call.entry_time.instant,
                                  None))
             /\ tp_activated' = tp_activated]_vars

\* the call returned on such a candle, with the take-profit enabled and not
\* yet taken
C14_Witness ==
    /\ sim_pc = "done"
    /\ sim_call.use_tp
    /\ ~tp_activated
    /\ BreachAndTakeProfit
    /\ Get(sim_result).exit_reason = "stop_loss"

StopLevels(entry_type, entry_price) ==
    IF entry_type = "LONG"
    THEN <<initial_stop_price(entry_type, entry_price), entry_price,
           (entry_price * 101) \div 100>>
    ELSE <<initial_stop_price(entry_type, entry_price), entry_price,
           (entry_price * 99) \div 100>>

\* C15: from candle to candle the stop never loosens: for a LONG it goes up
\* only (entry x 0.98, then entry once a close reaches +2 %, then entry x 1.01
\* once a close reaches +4 %), for a SHORT down only, and with use_trailing
\* false it does not change.
C15_StopNeverLoosens ==
    [][(sim_pc = "walk" /\ sim_idx <= Len(candles_after_entry))
          => LET e == sim_call.entry_price
                 levels == StopLevels(sim_call.entry_type, e)
                 close == candles_after_entry[sim_idx].close
                 gain == IF sim_call.entry_type = "LONG" THEN close - e ELSE e - close
                 tighter(a, b) == IF sim_call.entry_type = "LONG" THEN a >= b ELSE a <= b
             IN  /\ tighter(current_stop_price', current_stop_price)
                 /\ current_stop_price' \in {levels[1], levels[2], levels[3]}
                 /\ ~sim_call.use_trailing => current_stop_price' = current_stop_price
                 /\ (sim_pc' = "walk" /\ sim_call.use_trailing /\ gain * 100 >= e * 2)
                       => tighter(current_stop_price', levels[2])
                 /\ (sim_pc' = "walk" /\ sim_call.use_trailing /\ gain * 100 >= e * 4)
                       => current_stop_price' = levels[3]
                 /\ gain * 100 < e * 2 => current_stop_price' = current_stop_price]_vars

\* a stop at entry x 1.01 (x 0.99) met a later close between +2 % and +4 %
C15_Witness ==
    /\ sim_pc = "walk"
    /\ sim_idx = 3
    /\ current_stop_price = StopLevels(sim_call.entry_type, sim_call.entry_price)[3]
    /\ candles_after_entry[1].close = SimShape("up4", 0, sim_call.entry_type).close
    /\ candles_after_entry[2].close = SimShape("up2", 0, sim_call.entry_type).close

\* 16:00 Madrid time on the Madrid date of instant t
SpainSessionEnd(t) == SpainDate(t) * MinutesPerDay + 16 * 60 - NyToSpainMinutes

\* the close the call exits at when the stop is never hit, if the session
\* ends at session_end
ExitsAtSessionEnd(session_end) ==
    LET after == candles_after_entry
        before == {i \in 1..Len(after) : after[i].timestamp <= session_end}
        last == IF before = {} THEN after[Len(after)] ELSE after[SetMax(before)]
        r == Get(sim_result)
    IN  /\ r.exit_price = last.close
        /\ r.exit_minute = last.timestamp - sim_call.entry_time.instant
        /\ r.exit_reason = IF tp_activated THEN "session_end_with_partial_tp"
                           ELSE "session_end"

\* C16: with the entry timestamp analyze_session produces (an ISO string in
\* UTC) and the stop never hit, the call exits at the close of the last
\* post-entry candle not after 16:00 Madrid time of the entry day, or of the
\* last post-entry candle when there is none, with exit reason
\* session_end_with_partial_tp if the take-profit flag fired and session_end
\* otherwise.
C16_ExitAtSpainSessionEnd ==
    (/\ sim_pc = "done"
     /\ sim_call.entry_time.tz = "UTC"
     /\ candles_after_entry # <<>>
     /\ Get(sim_result).exit_reason # "stop_loss")
        => ExitsAtSessionEnd(SpainSessionEnd(sim_call.entry_time.instant))

\* what the call does with such a timestamp: the session ends at 16:00 UTC
C16_ExitAtUtcSessionEnd ==
    (/\ sim_pc = "done"
     /\ sim_call.entry_time.tz = "UTC"
     /\ candles_after_entry # <<>>
     /\ Get(sim_result).exit_reason # "stop_loss")
        => ExitsAtSessionEnd(UtcDate(sim_call.entry_time.instant) * MinutesPerDay
                                 + 16 * 60 - NyToUtcMinutes)

\* and with an entry time on the Madrid clock, at 16:00 Madrid time
C16_MadridEntryExitsAtSpainSessionEnd ==
    (/\ sim_pc = "done"
     /\ sim_call.entry_time.tz = "Europe/Madrid"
     /\ candles_after_entry # <<>>
     /\ Get(sim_result).exit_reason # "stop_loss")
        => ExitsAtSessionEnd(SpainSessionEnd(sim_call.entry_time.instant))

-----------------------------------------------------------------------------
(* service/analyze_week.py: the capital simulation of analyze_week *)

MaxWeekDays == 3

RECURSIVE WalkFrom(_, _, _, _, _)
WalkFrom(call, after, i, stop, tp) ==
    IF i > Len(after) THEN session_end_result(call, after, tp)
    ELSE LET step == walk_candle(call, after[i], stop, tp) IN
         IF step.returns THEN Get(step.result)
         ELSE WalkFrom(call, after, i + 1, step.current_stop_price, step.tp_activated)

\* simulate_session_end_price as one call
simulate_session_end_price(call) ==
    LET after == after_entry(call.candles, call.entry_time) IN
    IF after = <<>>
    THEN SimResult(call.candles[Len(call.candles)].close, "session_end", 0, None)
    ELSE WalkFrom(call, after, 1,
                  initial_stop_price(call.entry_type, call.entry_price), FALSE)

\* initial_capital = 500.0 and leverage = 25, the defaults; amounts of money
\* are whole cents, rounded down
initial_capital == 50000
week_leverage == 25

\* (price - entry_price) / entry_price for a LONG, its opposite for a SHORT,
\* in units of 0.01 %
GainBp(entry_type, entry_price, price) ==
    IF entry_type = "LONG" THEN ((price - entry_price) * 10000) \div entry_price
    ELSE ((entry_price - price) * 10000) \div entry_price

\* simulate_trade_pnl
simulate_trade_pnl(entry_price, entry_type, exit_price, capital_used, lev, exit_reason, partial_tp_price) ==
    IF partial_tp_price # None /\ exit_reason = "session_end_with_partial_tp"
    THEN (capital_used * (GainBp(entry_type, entry_price, Get(partial_tp_price))
                          + GainBp(entry_type, entry_price, exit_price)))
             \div (2 * (10000 \div lev))
    ELSE (capital_used * GainBp(entry_type, entry_price, exit_price))
             \div (10000 \div lev)

\* capital_used = current_capital * base_percentage
capital_used_of(capital) ==
    (capital * (IF capital * 10 > initial_capital * 15 THEN 50
                ELSE IF capital * 10 > initial_capital * 13 THEN 45
                ELSE IF capital * 10 > initial_capital * 11 THEN 40
                ELSE 35)) \div 100

\* the dictionary appended to trades: lines 384-394 and 428-438
TradeRecord(decision, capital_used, r) ==
    [type |-> decision.entry_type,
     entry_price |-> Get(decision.entry_price),
     exit_price |-> r.exit_price,
     capital_used |-> capital_used,
     pnl |-> simulate_trade_pnl(Get(decision.entry_price), decision.entry_type,
                                r.exit_price, capital_used, week_leverage,
                                r.exit_reason, r.partial_tp_price),
     exit_reason |-> r.exit_reason,
     entry_minute |-> Get(decision.entry_minute),
     exit_minute |-> r.exit_minute]

\* the trade that follows a decision, None without entry
TradeAfter(decision, day_candles, capital) ==
    IF decision.entry_type = "NO_ENTRY" THEN None
    ELSE Some(TradeRecord(decision, capital_used_of(capital),
                          simulate_session_end_price(
                              SimCall(day_candles, Get(decision.entry_price),
                                      Aware(Get(decision.entry_timestamp), "UTC"),
                                      decision.entry_type, TRUE, TRUE))))

\* the trade analyze_week appends for a day's candles
week_trade(day_candles, capital) ==
    TradeAfter(analyze_session(day_candles), day_candles, capital)

\* Inputs: the candles of a day with an entry at 100000 twelve minutes after
\* the open, one candle that decides the trade, and a last one after 16:00 UTC
WeekOutcomeLong(name, t) ==
    CASE name = "up2" -> Candle(t, 101000, 102100, 100500, 102000, 10)
      [] name = "up10" -> Candle(t, 102000, 110000, 101500, 110000, 10)
      [] name = "crash" -> Candle(t, 100000, 100000, 88000, 88000, 10)
      [] name = "wild" -> Candle(t, 100000, 100500, 99500, 112000, 10)
      [] name = "rest" -> Candle(t, 101200, 101500, 101100, 101200, 10)

Mirror(c) ==
    Candle(c.timestamp, 200000 - c.open, 200000 - c.low, 200000 - c.high,
           200000 - c.close, c.volume)

WeekOutcomeNames == {"up2", "up10", "crash", "wild"}

WeekDay(date, entry_type, outcome) ==
    LET open == calculate_ny_open_time(date)
        long == <<Candle(open - 30, 100000, 100200, 99800, 100000, 10),
                  Candle(open, 100000, 100000, 100000, 100000, 10),
                  Candle(open + 5, 100000, 100000, 99900, 99900, 10),
                  Candle(open + 10, 99900, 100000, 99900, 100000, 10),
                  Candle(open + 11, 99900, 99900, 99850, 99860, 10),
                  Candle(open + 12, 99860, 100000, 99860, 100000, 10),
                  Candle(open + 13, 100000, 100100, 100000, 100100, 10),
                  WeekOutcomeLong(outcome, open + 14),
                  WeekOutcomeLong("rest", open + 91)>>
    IN  IF entry_type = "LONG" THEN long
        ELSE IF entry_type = "SHORT"
        THEN [i \in 1..Len(long) |->
                 IF i = Len(long) - 1 /\ outcome = "wild" THEN long[i]
                 ELSE Mirror(long[i])]
        ELSE [i \in 1..Len(long) |-> Candle(long[i].timestamp, 100000, 100000,
                                            100000, 100000, 10)]

WeekDayKinds ==
    {<<entry_type, outcome>> : entry_type \in {"LONG", "SHORT"},
                               outcome \in WeekOutcomeNames}
        \cup {<<"NO_ENTRY", "crash">>}

WeekInit ==
    /\ WeekAlone
    /\ \E n \in 1..MaxWeekDays :
          \E kinds \in [1..n -> WeekDayKinds] :
              candles_by_day = [d \in 1..n |-> WeekDay(d, kinds[d][1], kinds[d][2])]
    /\ week_idx = 1
    /\ current_capital = initial_capital
    /\ trades = <<>>

\* one pass through the loop over dates: lines 335-459
AnalyzeDay ==
    /\ week_idx \in 1..Len(candles_by_day)
    /\ \E trade \in {week_trade(SortByTimestamp(candles_by_day[week_idx]),
                                current_capital)} :
          /\ trades' = IF trade = None THEN trades ELSE Append(trades, Get(trade))
          /\ current_capital' = IF trade = None THEN current_capital
                                ELSE current_capital + Get(trade).pnl
    /\ week_idx' = week_idx + 1
    /\ UNCHANGED candles_by_day
    /\ WeekOnly

WeekNext == AnalyzeDay

SpecWeek == WeekInit /\ [][WeekNext]_vars


WeekCandles ==
    {candles_by_day[d][i] : d \in 1..Len(candles_by_day),
                            i \in 1..Len(candles_by_day[1])}

TradeAppended == Len(trades') = Len(trades) + 1

-----------------------------------------------------------------------------
(* service/trading_strategy.py: the direction thresholds of analyze_session *)

\* the open, 5-minute and 10-minute prices analyze_session reads from the
\* session under analysis
ObservedPrices ==
    LET normalized_candles == SortByTimestamp(session_candles)
        ny_open == SessionNyOpen(normalized_candles[1].timestamp)
        narrow == Between(normalized_candles, ny_open - 2, ny_open + 10)
        observation_candles ==
            IF Len(narrow) < 2 THEN Between(normalized_candles, ny_open - 5, ny_open + 15)
            ELSE narrow
        prices == PricesAfterOpen(observation_candles, ny_open)
    IN  [open |-> OpenCandle(observation_candles, ny_open).close,
         five |-> prices.five, ten |-> prices.ten]

\* the price change the direction is decided on, times the open price:
\* 5-minute change, or 10-minute change when the former is within 0.05 %
DecidingMove ==
    LET p == ObservedPrices IN
    IF Abs(p.five - p.open) * 10000 < 5 * p.open THEN p.ten - p.open
    ELSE p.five - p.open

Analysed == session_decision # None /\ ~Get(session_decision).error

\* C18: the direction is "up" only above +0.08 %, "down" only below -0.08 %
\* and "none" between and at the thresholds, on the 5-minute change or, when
\* that is under 0.05 % in magnitude, on the 10-minute change.
C18_DirectionThresholdsStrict ==
    Analysed =>
        LET d == Get(session_decision).direction_detected
            move == DecidingMove * 10000
            bound == 8 * ObservedPrices.open
        IN  /\ (move > bound) <=> (d = "up")
            /\ (move < -bound) <=> (d = "down")
            /\ (move = bound \/ move = -bound) => d = "none"
            /\ d \in {"up", "down", "none"}

\* a session whose 5-minute close is exactly 0.08 % under the open price
C18_Witness ==
    /\ Analysed
    /\ DecidingMove * 10000 = -8 * ObservedPrices.open
    /\ Get(session_decision).direction_detected = "none"

\* sessions at +0.08 % exactly, and with a 5-minute change under 0.05 %
\* replaced by a 10-minute change that decides
C18_WitnessUpper ==
    /\ Analysed
    /\ DecidingMove * 10000 = 8 * ObservedPrices.open

C18_WitnessReplaced ==
    /\ Analysed
    /\ ObservedPrices.five # ObservedPrices.open
    /\ DecidingMove = ObservedPrices.ten - ObservedPrices.open
    /\ Get(session_decision).direction_detected = "down"

-----------------------------------------------------------------------------
(* service/download_historical_data.py: download_binance_candles, interval 1m.
   Times are minutes of local time from the midnight of day 0, a Thursday. *)

MaxDlDay == 3

klines_limit == 1000
page_hours == 16

Weekday(minute) == ((minute \div MinutesPerDay) + 3) % 7

Run(first, last) == [first |-> first, last |-> last]

\* the rows the endpoint returns: the candles it holds from startTime to
\* endTime, both included, the earliest `limit` of them
klines(params) ==
    LET last == SetMin({params.endTime, params.startTime + params.limit - 1,
                        klines_until - 1})
    IN  IF last < params.startTime THEN None ELSE Some(Run(params.startTime, last))

\* lines 75-88: the rows of a run that fall on Monday to Friday, day by day
KeptRuns(run) ==
    LET days == {d \in (run.first \div MinutesPerDay)..(run.last \div MinutesPerDay) :
                    Weekday(d * MinutesPerDay) < 5}
        piece(d) == Run(IF run.first > d * MinutesPerDay THEN run.first
                        ELSE d * MinutesPerDay,
                        IF run.last < d * MinutesPerDay + (MinutesPerDay - 1) THEN run.last
                        ELSE d * MinutesPerDay + (MinutesPerDay - 1))
        nth(k) == CHOOSE d \in days : Cardinality({e \in days : e < d}) = k - 1
    IN  [k \in 1..Cardinality(days) |-> piece(nth(k))]

\* lines 45-49
next_date_of(current, end_dt) ==
    IF current + page_hours * 60 > end_dt THEN end_dt + MinutesPerDay
    ELSE current + page_hours * 60

PageParams(current, end_dt) ==
    [startTime |-> current, endTime |-> next_date_of(current, end_dt),
     limit |-> klines_limit]

DownloadInit ==
    /\ DownloadAlone
    /\ \E s \in 0..MaxDlDay, e \in 0..MaxDlDay :
          /\ dl_range = [start_dt |-> s * MinutesPerDay, end_dt |-> e * MinutesPerDay]
          /\ dl_current = s * MinutesPerDay
    /\ klines_until \in {MinutesPerDay + 600, (MaxDlDay + 3) * MinutesPerDay}
    /\ dl_request = None
    /\ dl_response = "none"
    /\ all_candles = <<>>
    /\ dl_pc = "loop"

\* one pass through the while loop whose request is answered
DownloadPage ==
    /\ dl_pc = "loop"
    /\ dl_current <= dl_range.end_dt
    /\ LET params == PageParams(dl_current, dl_range.end_dt)
           data == klines(params)
       IN  /\ dl_request' = Some(params)
           /\ dl_response' = IF data = None THEN "sin datos" ELSE "velas"
           /\ all_candles' = IF data = None THEN all_candles
                             ELSE all_candles \o KeptRuns(Get(data))
           /\ dl_current' = params.endTime
    /\ UNCHANGED <<dl_range, klines_until, dl_pc>>
    /\ DownloadOnly

\* mutant: a failed request moves on to the next window
RequestFails_Advances ==
    /\ dl_pc = "loop"
    /\ dl_current <= dl_range.end_dt
    /\ dl_request' = Some(PageParams(dl_current, dl_range.end_dt))
    /\ dl_response' = "Error"
    /\ dl_current' = next_date_of(dl_current, dl_range.end_dt)
    /\ UNCHANGED <<dl_range, klines_until, all_candles, dl_pc>>
    /\ DownloadOnly

\* one pass whose request raises RequestException: the same window again
RequestFails ==
    /\ dl_pc = "loop"
    /\ dl_current <= dl_range.end_dt
    /\ dl_request' = Some(PageParams(dl_current, dl_range.end_dt))
    /\ dl_response' = "Error"
    /\ UNCHANGED <<dl_range, klines_until, dl_current, all_candles, dl_pc>>
    /\ DownloadOnly

\* lines 102-111: drop the timestamps already seen, sort
RECURSIVE Unique(_, _)
Unique(runs, seen_until) ==
    IF runs = <<>> THEN <<>>
    ELSE LET r == runs[1]
             first == IF r.first > seen_until THEN r.first ELSE seen_until + 1
             rest == Unique(SubSeq(runs, 2, Len(runs)),
                            IF r.last > seen_until THEN r.last ELSE seen_until)
         IN  IF first > r.last THEN rest ELSE <<Run(first, r.last)>> \o rest

DownloadReturn ==
    /\ dl_pc = "loop"
    /\ dl_current > dl_range.end_dt
    /\ all_candles' = Unique(all_candles, -1)
    /\ dl_pc' = "done"
    /\ UNCHANGED <<dl_range, klines_until, dl_current, dl_request, dl_response>>
    /\ DownloadOnly

DownloadNext == DownloadPage \/ RequestFails \/ DownloadReturn

SpecDownload == DownloadInit /\ [][DownloadNext]_vars

Downloaded(minute) ==
    \E k \in 1..Len(all_candles) :
        all_candles[k].first <= minute /\ minute <= all_candles[k].last

\* the minutes of the requested dates that fall on Monday to Friday and for
\* which the exchange holds a candle
RequestedMinutes ==
    {m \in dl_range.start_dt..(dl_range.end_dt + (MinutesPerDay - 1)) :
        Weekday(m) < 5 /\ m < klines_until}

\* C19: every page request covers at most 1000 minutes, and so the download
\* returns every candle of the requested dates.
C19_PagesWithinLimit ==
    /\ dl_request # None
          => Get(dl_request).endTime - Get(dl_request).startTime <= klines_limit
    /\ dl_pc = "done" => \A m \in RequestedMinutes : Downloaded(m)

\* the pages that stop 16 hours after their start are within the limit and
\* nothing of them is lost
C19_SixteenHourPagesWithinLimit ==
    /\ (dl_request # None
          /\ Get(dl_request).startTime + page_hours * 60 <= dl_range.end_dt)
          => Get(dl_request).endTime - Get(dl_request).startTime + 1 <= klines_limit
    /\ dl_pc = "done"
          => \A m \in RequestedMinutes : m < dl_range.end_dt => Downloaded(m)

-----------------------------------------------------------------------------
(* bot/scheduler.py: the stop-out step of the evaluation loop *)

\* the low (long) or high (short) of the candle under evaluation reaches the
\* stop of the open position
CandleReachesStop ==
    LET p == current_position[1] IN
    IF p.direction = "long" THEN LoopCandle.low * PriceScale <= p.stop_price
    ELSE LoopCandle.high * PriceScale >= p.stop_price

(* C20: on an evaluation candle processed with a position open, a candle     *)
(* whose low (long) or high (short) reaches the stop closes the position at   *)
(* exactly position.stop_price, logs one stop_out event, adds exactly one to *)
(* trades_today and evaluates no signal; a candle that does not reach the     *)
(* stop leaves trades_today and the position as they were.                    *)
C20_StopOutStep ==
    [][(Processing /\ PositionIsOpen) =>
          IF CandleReachesStop
          THEN /\ current_position' = <<[current_position[1] EXCEPT !.is_open = FALSE]>>
               /\ trades_today' = trades_today + 1
               /\ Cardinality({i \in 1..Len(Appended) : Appended[i].type = "stop_out"}) = 1
               /\ \A i \in 1..Len(Appended) :
                     Appended[i].type = "stop_out"
                         => Appended[i].exit_price = current_position[1].stop_price
               /\ AppendedTypes = {"virtual_mark", "stop_out"}
               /\ idx' = idx + 1
          ELSE /\ trades_today' = trades_today
               /\ current_position' = current_position
               /\ AppendedTypes = {"virtual_mark"}
               /\ idx' = idx + 1]_vars

\* a long position has just been stopped out by a candle that closed above
\* the stop its low had reached
C20_Witness ==
    /\ pc = "loop"
    /\ idx > 1
    /\ log # <<>>
    /\ log[Len(log)].type = "stop_out"
    /\ current_position # <<>>
    /\ ~current_position[1].is_open
    /\ current_position[1].direction = "long"
    /\ EvaluationCandles[idx - 1].close * PriceScale > current_position[1].stop_price
    /\ trades_today = 1

\* a short position held through a candle that did not reach its stop
C20_WitnessHold ==
    /\ pc = "loop"
    /\ idx > 1
    /\ PositionIsOpen
    /\ current_position[1].direction = "short"
    /\ log[Len(log)].type = "virtual_mark"

-----------------------------------------------------------------------------
(* bot/scheduler.py: the loop over days of run_on_historical_data *)

\* the scheduler's steps are taken as long as one is possible
\* the day loop keeps running until it returns: weak fairness of Next, with
\* ENABLED <<Next>>_vars written out as the loop not having returned
Returned == pc \in {"done", "raised"}
SpecFair == Spec /\ ([]<>Returned \/ []<><<Next>>_vars)

\* the feed's latest candle is before the New York open of day d
LatestPredatesOpen(d) ==
    feed # <<>> /\ feed[Len(feed)].timestamp < d * MinutesPerDay + (9 * 60 + 30)

SessionStartsOf(d) ==
    {i \in 1..Len(log) : log[i] = EvSessionStart(calculate_ny_open_time(d))}

(* C21: run_on_historical_data terminates; current_date goes from the start  *)
(* date to the day after the end date one day at a time; a day starts a       *)
(* session, once, unless the feed's latest candle predates its New York open, *)
(* and trades_today is 0 when the session starts.                             *)
C21_EachDayOnceThenDone ==
    /\ [][/\ current_date' \in {current_date, current_date + 1}
          /\ "session_start" \in AppendedTypes
                <=> (DayPending /\ ~LatestPredatesOpen(current_date))
          /\ "session_start" \in AppendedTypes
                => /\ Appended[1] = EvSessionStart(calculate_ny_open_time(current_date))
                   /\ trades_today = 0
                   /\ trades_today' = 0
          /\ (DayPending /\ LatestPredatesOpen(current_date))
                => current_date' = current_date + 1 /\ log' = log]_vars
    /\ [](pc = "done" =>
             /\ current_date = IF end_date >= start_date THEN end_date + 1
                               ELSE start_date
             /\ \A d \in 0..(MaxDay + 1) :
                   Cardinality(SessionStartsOf(d))
                       = IF start_date <= d /\ d <= end_date /\ ~LatestPredatesOpen(d)
                         THEN 1 ELSE 0)
    /\ <>(pc = "done")

\* a run over three days has ended: the first day ran a session with a trade,
\* the last day was skipped
C21_Witness ==
    /\ pc = "done"
    /\ end_date >= start_date + 2
    /\ SessionStartsOf(start_date) # {}
    /\ LatestPredatesOpen(end_date)
    /\ \E i \in 1..Len(log) : log[i].type = "open_virtual_position"


-----------------------------------------------------------------------------
\* the job run_trading_session got past the length check on the candles and
\* went on to analyze_session and execute_trading_decision
AnalysedSession(calls) == Called(calls, "get_ohlcv_data", "enough")

\* C22: run_trading_session analyses and calls execute_trading_decision only
\* with session_started unset, and then either sets the flag or raises out
\* of the loop; the flag is unset again only by the reset of the loop at
\* 00:00 UTC, so there is at most one analysis between two resets.  A run of
\* the job on a weekend, outside [NY open - 5 min, NY open + 30 min] or with
\* the flag set changes neither session_started nor the tracked position nor
\* the registered jobs, logs nothing and calls no exchange operation.
C22_OneSessionPerReset ==
    [][ /\ (live_pc = "run_trading_session" /\ AnalysedSession(live_calls'))
            => /\ ~session_started
               /\ should_trade_today(now) /\ is_open_time(now)
               /\ session_started' \/ live_pc' = "crashed"
        /\ (session_started /\ ~session_started')
            => live_pc = "sleep" /\ UtcMinuteOfDay(now') = 0
        /\ ( /\ live_pc = "run_trading_session"
             /\ \/ ~should_trade_today(now)
                \/ now < check_ny_open_time(now) - 5
                \/ now > check_ny_open_time(now) + 30
                \/ session_started )
            => /\ UNCHANGED <<session_started, live_position, monitoring_jobs>>
               /\ live_calls' = <<>>
               /\ live_events' = <<>>
      ]_vars

\* the job has just run inside the window of a weekday with the flag already
\* set by an earlier analysis, whose monitoring job is registered
C22_Witness ==
    /\ live_pc = "check_and_close_positions"
    /\ jobs_left = 1 + monitoring_jobs
    /\ monitoring_jobs >= 1
    /\ session_started
    /\ should_trade_today(now) /\ is_open_time(now)
    /\ now > check_ny_open_time(now)
    /\ live_calls = <<>>


-----------------------------------------------------------------------------
\* C23: when execute_trading_decision gets a LONG or SHORT decision (it asks
\* for the open positions), the exchange reports none and the balance is not
\* zero, the call of open_position raises TypeError at call time: it is the
\* last call of the job, no order reaches the exchange, the tracked position
\* stays as it was and no position_opened event is logged - in no state at all.
C23_OpenPositionCallFails ==
    /\ [][ ( /\ live_pc = "run_trading_session"
             /\ Called(live_calls', "get_open_positions", "none")
             /\ Called(live_calls', "fetch_balance", "returns")
             /\ \A i \in 1..Len(live_events') : live_events'[i] # LiveEvent("error", "balance_zero") )
            => /\ live_calls'[Len(live_calls')] = Call("open_position", "TypeError")
               /\ ~Called(live_calls', "open_position", "success")
               /\ ~Called(live_calls', "open_position", "failure")
               /\ live_position' = live_position
               /\ live_pc' = "crashed"
         ]_vars
    /\ [](~Logged(live_events, "position_opened"))

\* the job has ended in the TypeError of the call of open_position
C23_Witness ==
    /\ live_pc = "crashed"
    /\ Called(live_calls, "get_open_positions", "none")
    /\ Called(live_calls, "fetch_balance", "returns")
    /\ Called(live_calls, "open_position", "TypeError")
    /\ live_position = None


-----------------------------------------------------------------------------
(* service/download_historical_data.py: the retry of a failed request *)

\* every window's request is answered in the end, and the function goes on
\* to its return once the loop has ended
SpecDownloadFair == SpecDownload /\ WF_vars(DownloadPage) /\ WF_vars(DownloadReturn)

\* C24: every request starts at the cursor; a failed request leaves the
\* cursor, the candles and the loop as they were, so the next request is for
\* the same window and a request that fails for ever keeps the loop running;
\* the cursor moves only on an answered request (with or without rows), to
\* the end of its window; the loop is left only with the cursor past the end
\* date, and it is left if every window's request is answered in the end.
C24_RetrySameWindow ==
    /\ [][ /\ dl_request' # dl_request \/ dl_response' # dl_response
              => Get(dl_request').startTime = dl_current
           /\ dl_response' = "Error"
              => /\ dl_pc' = "loop" /\ dl_current <= dl_range.end_dt
                 /\ UNCHANGED <<dl_current, all_candles, dl_pc>>
           /\ dl_current' # dl_current
              => /\ dl_response' \in {"velas", "sin datos"}
                 /\ dl_current' = Get(dl_request').endTime
                 /\ dl_current' > dl_current
         ]_vars
    /\ [](dl_pc = "done" => dl_current > dl_range.end_dt)
    /\ <>(dl_pc = "done")

\* a request has failed at a window after the first, with candles collected
C24_Witness ==
    /\ dl_response = "Error"
    /\ dl_current > dl_range.start_dt
    /\ dl_current <= dl_range.end_dt
    /\ all_candles # <<>>


-----------------------------------------------------------------------------
(* bot/scheduler.py: the evaluation candle after a stop-out *)

\* the loop is at a candle it processes, and the long position of this
\* session has been stopped out (trades_today counts the stop-outs)
AfterLongStopOut ==
    /\ Processing
    /\ trades_today >= 1
    /\ current_position # None
    /\ ~Get(current_position).is_open
    /\ Get(current_position).direction = "long"

\* C25: at an evaluation candle after the stop-out of a long position, with
\* trades_today below max_trades_per_session, the scheduler logs the long
\* signal again and opens a position with the entry price, the entry_time
\* and the stop price of the position just stopped out; that entry_time is
\* earlier than the candle on which the stop was taken (the one before).
C25_ReopensSameLong ==
    [][ AfterLongStopOut
          => /\ Len(Appended) = 2
             /\ Appended[1].type = "signal_detected"
             /\ Appended[2].type = "open_virtual_position"
             /\ Appended[1] = EvSignalDetected(Get(LongSignal))
             /\ current_position' = Some([Get(current_position) EXCEPT !.is_open = TRUE])
             /\ Get(current_position').entry_price = Get(current_position).entry_price
             /\ Get(current_position').entry_time = Get(current_position).entry_time
             /\ Get(current_position').stop_price = Get(current_position).stop_price
             /\ idx >= 2
             /\ Get(current_position').entry_time < EvaluationCandles[idx - 1].timestamp
      ]_vars

\* a long position is open again after a stop-out of this session
C25_Witness ==
    /\ pc = "loop"
    /\ trades_today >= 1
    /\ PositionIsOpen
    /\ current_position[1].direction = "long"
    /\ SessionEvents("stop_out") # {}
    /\ Cardinality(SessionEvents("open_virtual_position")) >= 2


-----------------------------------------------------------------------------
\* C26: whenever run_session has returned (from a cancelled setup or after
\* its evaluation loop, whatever ended the loop) the simulator holds no open
\* position, so none is carried into the next day's session; a session
\* starts and leaves its setup with no open position.
C26_NoPositionAcrossSessions ==
    /\ pc \in {"days", "done"} => ~has_open_position(current_position)
    /\ (pc = "loop" /\ idx = 1) => ~has_open_position(current_position)

\* run_session has returned after closing, at the end of the session, the
\* position that was still open
C26_Witness ==
    /\ pc = "days"
    /\ current_position # None
    /\ ~has_open_position(current_position)
    /\ log # <<>>
    /\ \A i \in 1..Len(log) : log[i].type # "stop_out"


-----------------------------------------------------------------------------
\* two consecutive candles of the feed are more than 5 minutes apart
FeedHasGap ==
    \E i \in 2..Len(feed) : feed[i].timestamp - feed[i - 1].timestamp > 5

\* C27: in a run over a feed with two consecutive candles more than 5
\* minutes apart - wherever they are, the session's own day or not - every
\* session ends at once in cancel_setup(feed_unstable): the evaluation loop
\* is never entered and no position is ever opened.
C27_GapCancelsEverySession ==
    FeedHasGap =>
        /\ pc \in {"days", "done"}
        /\ current_position = None
        /\ \A i \in 1..Len(log) :
              /\ log[i].type \in {"session_start", "cancel_setup"}
              /\ log[i].type = "session_start"
                    => i < Len(log) /\ log[i + 1] = EvCancelSetup("feed_unstable")
              /\ log[i].type = "cancel_setup"
                    => i > 1 /\ log[i - 1].type = "session_start"

\* a run over two days with an overnight gap has returned: both sessions
\* were run and cancelled, the second day holding a complete short setup
C27_Witness ==
    /\ pc = "done"
    /\ FeedHasGap
    /\ feed \in OvernightGapFeeds
    /\ Len(feed) > 2 * (volume_lookback + wait_after_open_min) + 3
    /\ Cardinality({i \in 1..Len(log) : log[i].type = "session_start"}) = 2


-----------------------------------------------------------------------------
\* C28: a decision of analyze_session with entry_type NO_ENTRY has no
\* entry_price, no entry_minute and no entry_timestamp, and a decision with
\* entry_type LONG or SHORT has all three.
C28_EntryFieldsMatchEntryType ==
    session_decision # None =>
        LET d == Get(session_decision) IN
        /\ d.entry_type = "NO_ENTRY"
              => d.entry_price = None /\ d.entry_minute = None /\ d.entry_timestamp = None
        /\ d.entry_type \in {"LONG", "SHORT"}
              => d.entry_price # None /\ d.entry_minute # None /\ d.entry_timestamp # None

\* the entry fields are set exactly when a rebound or a rejection was found,
\* whatever entry_type says; entry_type is LONG or SHORT only with them set
C28_EntryFieldsSetTogether ==
    session_decision # None =>
        LET d == Get(session_decision) IN
        /\ (d.entry_price = None) = (d.entry_minute = None)
        /\ (d.entry_price = None) = (d.entry_timestamp = None)
        /\ d.entry_type \in {"LONG", "SHORT"} => d.entry_price # None
        /\ (d.entry_type = "NO_ENTRY" /\ d.entry_price # None)
              => d.direction_detected = "up" /\ d.resistance_zone # None


-----------------------------------------------------------------------------
\* the first minute of the window of the day of t
WindowStart(t) == check_ny_open_time(t) - 5

\* C29: with the loop running from before the window of a weekday, the job
\* run_trading_session at NY open - 5 min finds session_started unset and
\* fetches the candles; if it gets at least 100 it analyses there and then,
\* before the open, on candles none of which is at or after the open, so the
\* decision is NO_ENTRY, nothing is sent to the exchange and session_started
\* is set; the flag stays set through the window, and with the flag set the
\* job neither fetches nor analyses again.
C29_AnalysisAtWindowStart ==
    [][ /\ ( /\ live_pc = "run_trading_session"
             /\ should_trade_today(now)
             /\ now = WindowStart(now) )
            => /\ ~session_started
               /\ live_calls' # <<>>
               /\ live_calls'[1].name = "get_ohlcv_data"
               /\ AnalysedSession(live_calls')
                    => /\ now < check_ny_open_time(now)
                       /\ \A session \in LiveSessions :
                             \A i \in 1..Len(CandlesAt(session, now)) :
                                CandlesAt(session, now)[i].timestamp < check_ny_open_time(now)
                       /\ live_events' = <<LiveEvent("no_entry", "")>>
                       /\ Len(live_calls') = 1
                       /\ session_started'
                       /\ live_pc' # "crashed"
        /\ (session_started /\ is_open_time(now) /\ is_open_time(now'))
               => session_started'
        /\ (live_pc = "run_trading_session" /\ session_started)
               => live_calls' = <<>> /\ live_events' = <<>>
      ]_vars

\* the job runs at NY open + 30 min, the last minute of the window, with the
\* flag set by the analysis of that day and its monitoring job registered
C29_Witness ==
    /\ live_pc = "check_and_close_positions"
    /\ jobs_left = 1 + monitoring_jobs
    /\ monitoring_jobs = 1
    /\ session_started
    /\ should_trade_today(now)
    /\ now = check_ny_open_time(now) + 30
    /\ live_calls = <<>>
    /\ live_position = None


-----------------------------------------------------------------------------
ClosedEvents(events) ==
    {i \in 1..Len(events) : events[i].event_type = "position_closed"}

\* C30: when check_and_close_positions runs at or after 16:00 Spain time
\* with a tracked position whose stop the mark price of the exchange's
\* position has reached, it calls close_position_reason twice, for stop_loss
\* and then for session_end: the close operation of the exchange is invoked
\* twice; the first close that succeeds logs position_closed with its reason
\* and clears the tracked position, a later one logs nothing; if neither
\* succeeds nothing is logged and the position stays tracked.
C30_TwoClosesOneEvent ==
    /\ []( ( /\ live_pc = "check_and_close_positions"
             /\ live_position # None
             /\ SpainHour(now) >= 16 )
           => \A mark_price \in MarkPrices, stop_close \in OrderReplies, end_close \in OrderReplies :
                StopReached(Get(live_position), mark_price)
                  => \E o \in {check_and_close_positions(live_position, now,
                                   OpenPositions(mark_price), stop_close, end_close)} :
                       /\ ~o.raises
                       /\ o.calls = <<Call("get_open_positions", "open"),
                                      Call("close_position", stop_close),
                                      Call("close_position", end_close)>>
                       /\ o.events =
                            IF stop_close = "success"
                            THEN <<LiveEvent("position_closed", "stop_loss")>>
                            ELSE IF end_close = "success"
                            THEN <<LiveEvent("position_closed", "session_end")>>
                            ELSE <<>>
                       /\ o.position = IF "success" \in {stop_close, end_close}
                                       THEN None ELSE live_position )
    /\ [][ (live_pc = "check_and_close_positions" /\ Len(live_calls') = 3)
            => /\ live_position # None
               /\ SpainHour(now) >= 16
               /\ live_calls'[2].name = "close_position"
               /\ live_calls'[3].name = "close_position"
               /\ Cardinality(ClosedEvents(live_events')) <= 1
               /\ (live_position' = None) = Called(live_calls', "close_position", "success")
               /\ live_position' \in {None, live_position}
         ]_vars

\* both closes of one job succeeded: one position_closed event, for the
\* stop, and no tracked position
C30_Witness ==
    /\ live_calls = <<Call("get_open_positions", "open"),
                      Call("close_position", "success"),
                      Call("close_position", "success")>>
    /\ live_events = <<LiveEvent("position_closed", "stop_loss")>>
    /\ live_position = None
    /\ SpainHour(now) >= 16

\* the first close failed and the second closed the position
C30_WitnessSecond ==
    /\ live_calls = <<Call("get_open_positions", "open"),
                      Call("close_position", "failure"),
                      Call("close_position", "success")>>
    /\ live_events = <<LiveEvent("position_closed", "session_end")>>
    /\ live_position = None

====
